---------------------------- MODULE Spec2Model ----------------------------
(***************************************************************************)
(* Model of the TypeScript/JavaScript check aggregator                     *)
(* (amplifier_bundle_ts_dev: models.py, config.py, checker.py, and the     *)
(* tool / hook surfaces).                                                  *)
(*                                                                         *)
(* Three specifications share the module's variables:                      *)
(*   SpecPred   one CheckResult, success / clean evaluated on it           *)
(*   SpecMerge  three CheckResults, CheckResult.merge applied to them      *)
(*   Spec       one call of check_files / check_content, one step per      *)
(*              statement of TypeScriptChecker.check_files                 *)
(*   SpecConfig one call of load_config                                    *)
(*   SpecStub   one call of _check_file_for_stubs                          *)
(*   SpecHook   one call of TsCheckHooks.handle_tool_post                  *)
(*   SpecTool   one call of TsCheckTool.execute                            *)
(*   SpecExclude  _should_exclude on one file of a directory walk          *)
(*   SpecEslint   _run_eslint on well-formed output of the linter          *)
(*   SpecChecks   the checks selection of the tool and of the hook         *)
(*   SpecContent  check_content for the stub scan, over contents, virtual  *)
(*                filenames and temporary names                            *)
(* A specification leaves the variables of the others at their idle value. *)
(***************************************************************************)
EXTENDS Integers, Sequences, FiniteSets, TLC

VARIABLES
    \* ---- SpecPred
    pR,          \* the CheckResult under evaluation
    pOut,        \* NotYet, or [success, clean] as the properties returned them
    \* ---- SpecMerge
    mA, mB, mC,  \* the three operands
    mOut         \* NotYet, or the results of the merges applied to them

predVars  == <<pR, pOut>>
mergeVars == <<mA, mB, mC, mOut>>

VARIABLES
    \* ---- SpecConfig
    fnArgs,      \* the arguments of the function under test
    fnOut        \* NotYet, or what the function returned or raised

fnVars == <<fnArgs, fnOut>>

----------------------------------------------------------------------------
(* Bounds of the pure-function specifications *)

\* SpecPred: longest issue list of the evaluated result
MaxPredIssues == 3
\* SpecMerge: issues and checks_run entries in the three operands together
MaxEntries == 2
\* SpecPred, SpecMerge: largest files_checked of an operand
MaxFiles == 1
\* SpecStub: most lines of the scanned file
MaxStubLines == 2
\* SpecHook: most issues in the result the hook's check returns
MaxHookIssues == 2
\* SpecEslint: most messages in the linter's output
MaxEslintMsgs == 2

----------------------------------------------------------------------------
(* models.py: Severity, Issue, CheckResult *)

ERROR   == "error"
WARNING == "warning"
INFO    == "info"
Severity == {ERROR, WARNING, INFO}

\* Issue(file, line, column, code, message, severity, source)
Issue(file, line, column, code, message, severity, source) ==
    [file |-> file, line |-> line, column |-> column, code |-> code,
     message |-> message, severity |-> severity, source |-> source]

\* CheckResult(issues=[], files_checked=0, checks_run=[])
CheckResult(issues, files_checked, checks_run) ==
    [issues |-> issues, files_checked |-> files_checked, checks_run |-> checks_run]

EmptyResult == CheckResult(<<>>, 0, <<>>)

Range(s) == {s[i] : i \in 1..Len(s)}

Max(a, b) == IF a >= b THEN a ELSE b

\* success: not any(i.severity == Severity.ERROR for i in self.issues)
successAnyWarning(self) == ~ \E k \in 1..Len(self.issues) : self.issues[k].severity \in {ERROR, WARNING}
success(self) == ~ \E k \in 1..Len(self.issues) : self.issues[k].severity = ERROR

\* clean: len(self.issues) == 0
cleanNoError(self) == success(self)
clean(self) == Len(self.issues) = 0

RECURSIVE Filter(_, _)
Filter(s, S) ==
    IF s = <<>> THEN <<>>
    ELSE IF Head(s) \in S THEN <<Head(s)>> \o Filter(Tail(s), S)
    ELSE Filter(Tail(s), S)

\* list(set(xs)): the elements of xs, each once, in the iteration order of a
\* Python set.  That order depends on the string hashes of the process and is
\* no function of xs; ord (an order of a superset of the names) stands for it.
ListOfSet(xs, ord) == Filter(ord, Range(xs))

\* CheckResult.merge
mergeOtherFirst(self, other, ord) ==
    CheckResult(other.issues \o self.issues,
                Max(self.files_checked, other.files_checked),
                ListOfSet(self.checks_run \o other.checks_run, ord))
mergeLastFiles(self, other, ord) ==
    CheckResult(self.issues \o other.issues,
                other.files_checked,
                ListOfSet(self.checks_run \o other.checks_run, ord))
mergeSumFiles(self, other, ord) ==
    CheckResult(self.issues \o other.issues,
                self.files_checked + other.files_checked,
                ListOfSet(self.checks_run \o other.checks_run, ord))
merge(self, other, ord) ==
    CheckResult(self.issues \o other.issues,
                Max(self.files_checked, other.files_checked),
                ListOfSet(self.checks_run \o other.checks_run, ord))

----------------------------------------------------------------------------
(* Inputs of the pure-function specifications *)

NotYet == [done |-> FALSE]

FnIdle == fnArgs = NotYet /\ fnOut = NotYet

\* Sequences over S of length at most n
SeqsUpTo(S, n) == UNION {[1..k -> S] : k \in 0..n}

\* One issue of each severity, as an adapter could have produced it
PoolIssues ==
    { Issue("a.ts", 3, 7, "no-unused-vars", "unused", ERROR, "eslint"),
      Issue("a.ts", 1, 1, "FORMAT", "File would be reformatted", WARNING, "prettier"),
      Issue("b.js", 2, 1, "note", "for information", INFO, "eslint") }

MergeNames == {"eslint", "tsc"}

PredResults ==
    { CheckResult(is, n, cr) :
        is \in SeqsUpTo(PoolIssues, MaxPredIssues),
        n \in 0..MaxFiles,
        cr \in SeqsUpTo(MergeNames, 1) }

\* SpecMerge: the issue lists and the checks_run lists of the three operands,
\* at most MaxEntries entries between them (names repeat within an operand and
\* across operands)
MergeIssues == {i \in PoolIssues : i.severity # INFO}
Total(t) == Len(t[1]) + Len(t[2]) + Len(t[3])
IssueTriples ==
    { t \in SeqsUpTo(MergeIssues, MaxEntries) \X SeqsUpTo(MergeIssues, MaxEntries) \X SeqsUpTo(MergeIssues, MaxEntries) :
        Total(t) <= MaxEntries }
CheckTriples ==
    { t \in SeqsUpTo(MergeNames, MaxEntries) \X SeqsUpTo(MergeNames, MaxEntries) \X SeqsUpTo(MergeNames, MaxEntries) :
        Total(t) <= MaxEntries }
ListTriples == {p \in IssueTriples \X CheckTriples : Total(p[1]) + Total(p[2]) <= MaxEntries}
\* the orders list(set(...)) can give these names
MergeOrders == {<<"eslint", "tsc">>, <<"tsc", "eslint">>}
FileTriples == (0..MaxFiles) \X (0..MaxFiles) \X (0..MaxFiles)

----------------------------------------------------------------------------
(* JSON values as json.loads returns them, and the Python operations the   *)
(* linter adapter applies to them                                          *)

JNull      == [t |-> "null"]
JBool(b)   == [t |-> "bool", b |-> b]
JNum(n)    == [t |-> "num", n |-> n]
JStr(s)    == [t |-> "str", s |-> s]
JArr(xs)   == [t |-> "arr", items |-> xs]
JObj(f)    == [t |-> "obj", f |-> f]
NoFields   == [k \in {} |-> JNull]

\* bool(v)
Truthy(v) ==
    CASE v.t = "null" -> FALSE
      [] v.t = "bool" -> v.b
      [] v.t = "num"  -> v.n # 0
      [] v.t = "str"  -> v.s # ""
      [] v.t = "arr"  -> v.items # <<>>
      [] v.t = "obj"  -> DOMAIN v.f # {}

\* hasattr(v, "get"): only a dict has .get
HasGet(v) == v.t = "obj"

\* v.get(key, default) for a dict v
Get(v, key, default) == IF key \in DOMAIN v.f THEN v.f[key] ELSE default

\* iter(v): a list yields its items, a dict its keys, a str its characters;
\* None, a bool and a number are not iterable (TypeError).
Iterable(v) == v.t \in {"arr", "obj", "str"}

RECURSIVE SetToSeq(_)
SetToSeq(S) ==
    IF S = {} THEN <<>>
    ELSE LET x == CHOOSE y \in S : TRUE IN <<x>> \o SetToSeq(S \ {x})

IterItems(v) ==
    CASE v.t = "arr" -> v.items
      [] v.t = "obj" -> [k \in 1..Cardinality(DOMAIN v.f) |-> JStr(SetToSeq(DOMAIN v.f)[k])]
      [] v.t = "str" -> [k \in 1..Len(v.s) |-> JStr("c")]

\* hash(v): a list and a dict are unhashable (TypeError when used as a dict key)
Hashable(v) == v.t \notin {"arr", "obj"}

\* What a parse step yields: the issues so far, or the exception that left it
Ok(issues)  == [exc |-> "", issues |-> issues]
Raise(name) == [exc |-> name, issues |-> <<>>]

----------------------------------------------------------------------------
(* checker.py: what the adapters share *)

\* subprocess.run(cmd, capture_output=True, text=True, timeout=120) either
\* raises or returns a CompletedProcess
TimedOut      == [kind |-> "TimeoutExpired"]
LaunchFailed(e) == [kind |-> e]
Exited(returncode, stdout) == [kind |-> "exit", returncode |-> returncode, stdout |-> stdout]

\* _find_executable(name): <root>/node_modules/.bin/<name> when the checker
\* has a project root and that file exists, else shutil.which(name), which is
\* None when PATH holds no such executable.  The three answers:
NoExe == "none"
Exe(where, name) == IF where = "local" THEN "node_modules/.bin/" \o name ELSE "/usr/bin/" \o name

\* What an adapter call yields: its CheckResult, or the exception that left it;
\* and what it did on the way: the answer of _find_executable ("" when it did
\* not ask), the commands it launched.
Found == "found"
Missing == "missing"
Returned(result, lookup, cmds) == [exc |-> "", result |-> result, lookup |-> lookup, cmds |-> cmds]
Raised(name, lookup, cmds)     == [exc |-> name, result |-> EmptyResult, lookup |-> lookup, cmds |-> cmds]

\* the result of an adapter whose executable is missing (lines 127-140)
ToolNotFoundAsError(name, hint) ==
    CheckResult(<<Issue("", 0, 0, "TOOL-NOT-FOUND", name \o " not found. Install with: npm install -D " \o hint,
                        ERROR, name)>>, 0, <<name>>)
ToolNotFound(name, hint) ==
    CheckResult(<<Issue("", 0, 0, "TOOL-NOT-FOUND", name \o " not found. Install with: npm install -D " \o hint,
                        WARNING, name)>>, 0, <<name>>)

\* the result of an adapter whose process ran out of time (lines 155-169)
TimeoutAsWarning(label, name) ==
    CheckResult(<<Issue("", 0, 0, "TIMEOUT", label \o " timed out after 120 seconds", WARNING, name)>>,
                0, <<name>>)
TimeoutUnnamed(label, name) ==
    CheckResult(<<Issue("", 0, 0, "TIMEOUT", label \o " timed out after 120 seconds", ERROR, name)>>,
                0, <<>>)
Timeout(label, name) ==
    CheckResult(<<Issue("", 0, 0, "TIMEOUT", label \o " timed out after 120 seconds", ERROR, name)>>,
                0, <<name>>)

----------------------------------------------------------------------------
(* checker.py: _run_eslint *)

\* severity_map.get(msg.get("severity", 1), Severity.WARNING)
EslintSeverityDefaultError(level) == IF level.t = "num" /\ level.n = 1 THEN WARNING ELSE ERROR
EslintSeverity(level) == IF level.t = "num" /\ level.n = 2 THEN ERROR ELSE WARNING

\* int / str fields of the issue as the message carries them
NumOf(v) == v.n
StrOf(v) == v.s

\* the body of `for msg in file_result.get("messages", [])`
EslintMessage(file_path, msg) ==
    IF ~HasGet(msg) THEN Raise("AttributeError")
    ELSE IF ~Hashable(Get(msg, "severity", JNum(1))) THEN Raise("TypeError")
    ELSE IF Truthy(Get(msg, "fix", JNull)) /\ ~HasGet(Get(msg, "fix", JObj(NoFields)))
        THEN Raise("AttributeError")
    ELSE Ok(<<Issue(StrOf(file_path),
                    NumOf(Get(msg, "line", JNum(0))),
                    NumOf(Get(msg, "column", JNum(0))),
                    IF Truthy(Get(msg, "ruleId", JNull)) THEN StrOf(Get(msg, "ruleId", JNull)) ELSE "eslint",
                    StrOf(Get(msg, "message", JStr(""))),
                    EslintSeverity(Get(msg, "severity", JNum(1))),
                    "eslint")>>)

RECURSIVE EslintMessages(_, _)
EslintMessages(file_path, msgs) ==
    IF msgs = <<>> THEN Ok(<<>>)
    ELSE LET first == EslintMessage(file_path, Head(msgs)) IN
         IF first.exc # "" THEN first
         ELSE LET rest == EslintMessages(file_path, Tail(msgs)) IN
              IF rest.exc # "" THEN rest ELSE Ok(first.issues \o rest.issues)

\* the body of `for file_result in eslint_output`
EslintFile(file_result) ==
    IF ~HasGet(file_result) THEN Raise("AttributeError")
    ELSE LET messages == Get(file_result, "messages", JArr(<<>>)) IN
         IF ~Iterable(messages) THEN Raise("TypeError")
         ELSE EslintMessages(Get(file_result, "filePath", JStr("")), IterItems(messages))

RECURSIVE EslintFiles(_)
EslintFiles(file_results) ==
    IF file_results = <<>> THEN Ok(<<>>)
    ELSE LET first == EslintFile(Head(file_results)) IN
         IF first.exc # "" THEN first
         ELSE LET rest == EslintFiles(Tail(file_results)) IN
              IF rest.exc # "" THEN rest ELSE Ok(first.issues \o rest.issues)

\* stdout of the linter: blank, text json.loads rejects, or a JSON value
Blank       == [text |-> "blank"]
NotJson     == [text |-> "notjson"]
Json(value) == [text |-> "json", value |-> value]

\* lines 186-214: `if result.stdout.strip(): try: ... except json.JSONDecodeError: pass`
EslintParse(stdout) ==
    IF stdout.text = "blank" THEN Ok(<<>>)
    ELSE IF stdout.text = "notjson" THEN Ok(<<>>)
    ELSE IF ~Iterable(stdout.value) THEN Raise("TypeError")
    ELSE EslintFiles(IterItems(stdout.value))

EslintCmd(eslint, paths, fix, hasCfg) ==
    <<eslint, "--format=json">>
      \o (IF fix THEN <<"--fix">> ELSE <<>>)
      \o (IF ~hasCfg THEN <<"--no-eslintrc", "--env", "browser,node,es2022">> ELSE <<>>)
      \o paths

\* _run_eslint(paths, fix) with what it reads from its surroundings:
\* eslint = _find_executable("eslint"), hasCfg = has_eslint_config(root),
\* proc = the outcome of subprocess.run
_run_eslint(paths, fix, eslint, hasCfg, proc) ==
    IF eslint = NoExe THEN Returned(ToolNotFound("eslint", "eslint"), Missing, <<>>)
    ELSE LET cmd == EslintCmd(eslint, paths, fix, hasCfg) IN
         CASE proc.kind = "TimeoutExpired"    -> Returned(Timeout("ESLint", "eslint"), Found, <<cmd>>)
           [] proc.kind = "FileNotFoundError" -> Returned(ToolNotFound("eslint", "eslint"), Found, <<cmd>>)
           [] proc.kind = "exit" ->
                LET parsed == EslintParse(proc.stdout) IN
                IF parsed.exc # "" THEN Raised(parsed.exc, Found, <<cmd>>)
                ELSE Returned(CheckResult(parsed.issues, 0, <<"eslint">>), Found, <<cmd>>)
           [] OTHER -> Raised(proc.kind, Found, <<cmd>>)

----------------------------------------------------------------------------
(* Strings and paths.  A path is a string; Spell gives its characters, and  *)
(* the pathlib / str operations of the code are computed on the characters. *)

Spell(p) ==
    CASE p = "a.ts" -> <<"a", ".", "t", "s">>
      [] p = "b.js" -> <<"b", ".", "j", "s">>
      [] p = "gone.ts" -> <<"g", "o", "n", "e", ".", "t", "s">>
      [] p = "notes.txt" -> <<"n", "o", "t", "e", "s", ".", "t", "x", "t">>
      [] p = "src" -> <<"s", "r", "c">>
      [] p = "src/a.ts" -> <<"s", "r", "c", "/", "a", ".", "t", "s">>
      [] p = "src/b.js" -> <<"s", "r", "c", "/", "b", ".", "j", "s">>
      [] p = "." -> <<".">>
      [] p = "/tmp/tmpk3x9q2ab.ts" -> <<"/", "t", "m", "p", "/", "t", "m", "p", "k", "3", "x", "9", "q", "2", "a", "b", ".", "t", "s">>
      [] p = "/tmp/tmpk3x9q2ab.js" -> <<"/", "t", "m", "p", "/", "t", "m", "p", "k", "3", "x", "9", "q", "2", "a", "b", ".", "j", "s">>
      [] p = "../../tmp/tmpk3x9q2ab.ts" -> <<".", ".", "/", ".", ".", "/", "t", "m", "p", "/", "t", "m", "p", "k", "3", "x", "9", "q", "2", "a", "b", ".", "t", "s">>
      [] p = "lib/util.ts" -> <<"l", "i", "b", "/", "u", "t", "i", "l", ".", "t", "s">>
      [] p = "index.js" -> <<"i", "n", "d", "e", "x", ".", "j", "s">>
      [] p = "lib/test/util.ts" -> <<"l", "i", "b", "/", "t", "e", "s", "t", "/", "u", "t", "i", "l", ".", "t", "s">>
      [] p = "lib/Spec/util.ts" -> <<"l", "i", "b", "/", "S", "p", "e", "c", "/", "u", "t", "i", "l", ".", "t", "s">>
      [] p = "lib/latest.ts" -> <<"l", "i", "b", "/", "l", "a", "t", "e", "s", "t", ".", "t", "s">>
      [] p = "jest.config.js" -> <<"j", "e", "s", "t", ".", "c", "o", "n", "f", "i", "g", ".", "j", "s">>
      [] p = "types.d.ts" -> <<"t", "y", "p", "e", "s", ".", "d", ".", "t", "s">>
      [] p = "scripts/build.js" -> <<"s", "c", "r", "i", "p", "t", "s", "/", "b", "u", "i", "l", "d", ".", "j", "s">>
      [] p = "/repo/scripts/build.js" -> <<"/", "r", "e", "p", "o", "/", "s", "c", "r", "i", "p", "t", "s", "/", "b", "u", "i", "l", "d", ".", "j", "s">>
      [] p = "example.ts" -> <<"e", "x", "a", "m", "p", "l", "e", ".", "t", "s">>
      [] p = "lib.js" -> <<"l", "i", "b", ".", "j", "s">>
      [] p = "Makefile" -> <<"M", "a", "k", "e", "f", "i", "l", "e">>
      [] p = "/tmp/tmptest_0ab.ts" -> <<"/", "t", "m", "p", "/", "t", "m", "p", "t", "e", "s", "t", "_", "0", "a", "b", ".", "t", "s">>
      [] p = "foo.test.ts" -> <<"f", "o", "o", ".", "t", "e", "s", "t", ".", "t", "s">>
      [] p = "src/app.min.js" -> <<"s", "r", "c", "/", "a", "p", "p", ".", "m", "i", "n", ".", "j", "s">>
      [] p = "node_modules/x.js" -> <<"n", "o", "d", "e", "_", "m", "o", "d", "u", "l", "e", "s", "/", "x", ".", "j", "s">>
      [] p = "dist/out.js" -> <<"d", "i", "s", "t", "/", "o", "u", "t", ".", "j", "s">>
      [] p = "build/out.js" -> <<"b", "u", "i", "l", "d", "/", "o", "u", "t", ".", "j", "s">>
      [] p = ".next/p.js" -> <<".", "n", "e", "x", "t", "/", "p", ".", "j", "s">>
      [] p = "coverage/r.js" -> <<"c", "o", "v", "e", "r", "a", "g", "e", "/", "r", ".", "j", "s">>
      [] p = "src/rebuild.ts" -> <<"s", "r", "c", "/", "r", "e", "b", "u", "i", "l", "d", ".", "t", "s">>

\* the index of the last occurrence of c in cs, 0 when there is none (rfind + 1)
RECURSIVE LastIndex(_, _)
LastIndex(cs, c) ==
    IF cs = <<>> THEN 0
    ELSE IF cs[Len(cs)] = c THEN Len(cs)
    ELSE LastIndex(SubSeq(cs, 1, Len(cs) - 1), c)

\* PurePath.name: the final component
NameChars(cs) == SubSeq(cs, LastIndex(cs, "/") + 1, Len(cs))

\* PurePath.suffix: the name from its last dot on, when that dot is neither the
\* first nor the last character of the name; else ""
SuffixChars(cs) ==
    LET name == NameChars(cs)
        i    == LastIndex(name, ".")
    IN IF 1 < i /\ i < Len(name) THEN SubSeq(name, i, Len(name)) ELSE <<>>

\* `sub in s`
Contains(cs, sub) ==
    \E i \in 0..(Len(cs) - Len(sub)) : SubSeq(cs, i + 1, i + Len(sub)) = sub

EndsWith(cs, sub) ==
    Len(sub) <= Len(cs) /\ SubSeq(cs, Len(cs) - Len(sub) + 1, Len(cs)) = sub

StartsWith(cs, sub) ==
    Len(sub) <= Len(cs) /\ SubSeq(cs, 1, Len(sub)) = sub

\* TypeScriptChecker.TS_EXTENSIONS / JS_EXTENSIONS / ALL_EXTENSIONS
TS_EXTENSIONS == {<<".", "t", "s">>, <<".", "t", "s", "x">>, <<".", "m", "t", "s">>, <<".", "c", "t", "s">>}
JS_EXTENSIONS == {<<".", "j", "s">>, <<".", "j", "s", "x">>, <<".", "m", "j", "s">>, <<".", "c", "j", "s">>}
ALL_EXTENSIONS == TS_EXTENSIONS \cup JS_EXTENSIONS

\* the paths of the model
KnownPaths ==
    {"a.ts", "b.js", "gone.ts", "notes.txt", "src", "src/a.ts", "src/b.js", ".",
     "/tmp/tmpk3x9q2ab.ts", "/tmp/tmpk3x9q2ab.js", "../../tmp/tmpk3x9q2ab.ts",
     "example.ts", "lib.js", "Makefile",
     "lib/util.ts", "index.js", "lib/test/util.ts", "lib/Spec/util.ts", "lib/latest.ts",
     "jest.config.js", "types.d.ts", "scripts/build.js", "/repo/scripts/build.js",
     "src/app.min.js", "node_modules/x.js", "dist/out.js", "build/out.js",
     ".next/p.js", "coverage/r.js", "src/rebuild.ts",
     "/tmp/tmptest_0ab.ts", "foo.test.ts"}

\* Path(p).suffix
SuffixOf == [p \in KnownPaths |-> SuffixChars(Spell(p))]
Suffix(p) == SuffixOf[p]

----------------------------------------------------------------------------
(* The file system the checker reads *)

VARIABLES
    temp         \* the file on disk that is not one of the static ones: [path,
                 \* exists, lines]; check_content's temporary file, and in
                 \* SpecStub the file under scan

\* A source line: its text, the stub rules (by position in stub_patterns) whose
\* pattern re.search finds in it ignoring case, and whether it holds "console."
Line(text, matches, console) == [text |-> text, matches |-> matches, console |-> console]
LTodo    == Line("// TODO: fix this", {1}, FALSE)
LAny     == Line("const x: any = 1;", {8}, FALSE)
LConsole == Line("console.log(x as any); // todo: drop", {1, 7, 9}, TRUE)
LPlain   == Line("export const y = 2;", {}, FALSE)
LWarn    == Line("// TODO: drop console.error", {1}, TRUE)

NoTemp == [path |-> "", exists |-> FALSE, lines |-> <<>>]

\* the files on disk, with their lines
StaticFiles == {"a.ts", "b.js", "notes.txt", "src/a.ts", "src/b.js", "dist/out.js"}
StaticLines(p) ==
    CASE p = "a.ts"      -> <<LTodo, LAny>>
      [] p = "b.js"      -> <<LConsole>>
      [] p = "notes.txt" -> <<LTodo>>
      [] p = "src/a.ts"  -> <<LPlain, LTodo>>
      [] p = "src/b.js"  -> <<LPlain>>
      [] p = "dist/out.js" -> <<LTodo>>

\* the directories, with the files below them in the order a walk meets them
DirListing(p) ==
    CASE p = "src" -> <<"src/a.ts", "src/b.js">>
      [] p = "."   -> <<"a.ts", "b.js", "notes.txt", "src/a.ts", "src/b.js", "dist/out.js">>
      [] OTHER     -> <<>>

\* Path.is_file(), Path.is_dir(), Path.read_text().split("\n")
is_file(p) == p \in StaticFiles \/ (temp.exists /\ p = temp.path)
is_dir(p)  == p \in {"src", "."}
ReadLines(p) == IF p \in StaticFiles THEN StaticLines(p) ELSE temp.lines

\* list(path.rglob("*" + ext)): the files below path whose name ends in ext
RECURSIVE SelectSeq2(_, _)
SelectSeq2(fs, ext) ==
    IF fs = <<>> THEN <<>>
    ELSE IF EndsWith(NameChars(Spell(Head(fs))), ext) THEN <<Head(fs)>> \o SelectSeq2(Tail(fs), ext)
    ELSE SelectSeq2(Tail(fs), ext)
rglob(p, ext) == SelectSeq2(DirListing(p), ext)

\* `for ext in self.ALL_EXTENSIONS`: a set of strings is iterated in an order
\* that depends on the string hashes of the process.  Only the extensions that
\* files of the file system carry can show their place in it.
ExtOrders ==
    { <<<<".", "t", "s">>, <<".", "j", "s">>>>, <<<<".", "j", "s">>, <<".", "t", "s">>>> }

\* _count_ts_js_files
RECURSIVE CountExts(_, _)
CountExts(p, exts) ==
    IF exts = <<>> THEN 0 ELSE Len(rglob(p, Head(exts))) + CountExts(p, Tail(exts))

RECURSIVE _count_ts_js_files(_, _)
_count_ts_js_files(paths, exts) ==
    IF paths = <<>> THEN 0
    ELSE (IF is_file(Head(paths)) /\ Suffix(Head(paths)) \in ALL_EXTENSIONS THEN 1
          ELSE IF is_dir(Head(paths)) THEN CountExts(Head(paths), exts)
          ELSE 0)
         + _count_ts_js_files(Tail(paths), exts)

----------------------------------------------------------------------------
(* checker.py: _run_prettier *)

\* A line of the formatter's stdout after strip(): the marker it starts with
\* ("[warn]", "Checking" or none), the text after a "[warn]" marker stripped
\* (the whole line when there is no marker), and the path whose suffix
\* Path(line).suffix is taken from ("" when the line names no known path).
PLine(marker, text, path) == [marker |-> marker, text |-> text, path |-> path]

PrettierIssueAsError(file) ==
    Issue(file, 1, 1, "FORMAT", "File would be reformatted", ERROR, "prettier")
PrettierIssue(file) ==
    Issue(file, 1, 1, "FORMAT", "File would be reformatted", WARNING, "prettier")

PrettierLine(l) ==
    IF l.marker = "[warn]" THEN <<PrettierIssue(l.text)>>
    ELSE IF l.text # "" /\ l.marker # "Checking" /\ l.path # "" /\ Suffix(l.path) \in ALL_EXTENSIONS
        THEN <<PrettierIssue(l.text)>>
    ELSE <<>>

RECURSIVE PrettierLines(_)
PrettierLines(ls) ==
    IF ls = <<>> THEN <<>> ELSE PrettierLine(Head(ls)) \o PrettierLines(Tail(ls))

PrettierCmdAlwaysWrite(prettier, paths, fix) ==
    <<prettier, "--write">> \o paths
PrettierCmd(prettier, paths, fix) ==
    <<prettier, IF fix THEN "--write" ELSE "--check">> \o paths

\* _run_prettier(paths, fix); prettier = _find_executable("prettier"),
\* proc = the outcome of subprocess.run
_run_prettier(paths, fix, prettier, proc) ==
    IF prettier = NoExe THEN Returned(ToolNotFound("prettier", "prettier"), Missing, <<>>)
    ELSE LET cmd == PrettierCmd(prettier, paths, fix) IN
         CASE proc.kind = "TimeoutExpired"    -> Returned(Timeout("Prettier", "prettier"), Found, <<cmd>>)
           [] proc.kind = "FileNotFoundError" -> Returned(ToolNotFound("prettier", "prettier"), Found, <<cmd>>)
           [] proc.kind = "exit" ->
                Returned(CheckResult(IF proc.returncode # 0 /\ ~fix THEN PrettierLines(proc.stdout) ELSE <<>>,
                                     0, <<"prettier">>), Found, <<cmd>>)
           [] OTHER -> Raised(proc.kind, Found, <<cmd>>)

----------------------------------------------------------------------------
(* checker.py: _run_tsc *)

\* A line of the type checker's stdout: whether tsc_pattern matches it, and the
\* groups of the match
TLine(file, line, col, kind, code, message) ==
    [match |-> TRUE, file |-> file, line |-> line, col |-> col, kind |-> kind,
     code |-> code, message |-> message]
TOther == [match |-> FALSE]

TscLine(l) ==
    IF l.match
    THEN <<Issue(l.file, l.line, l.col, l.code, l.message,
                 IF l.kind = "error" THEN ERROR ELSE WARNING, "tsc")>>
    ELSE <<>>

RECURSIVE TscLines(_)
TscLines(ls) ==
    IF ls = <<>> THEN <<>> ELSE TscLine(Head(ls)) \o TscLines(Tail(ls))

\* any(Path(p).suffix in self.TS_EXTENSIONS for p in paths if Path(p).is_file())
has_ts_filesAnyExtension(paths) ==
    \E k \in 1..Len(paths) : is_file(paths[k]) /\ Suffix(paths[k]) \in ALL_EXTENSIONS
has_ts_files(paths) ==
    \E k \in 1..Len(paths) : is_file(paths[k]) /\ Suffix(paths[k]) \in TS_EXTENSIONS

\* The project root find_project_root() gave the checker, named by what it
\* holds: "none" (no root found), "package.json" (a root with package.json and
\* no other configuration), "tsconfig.json" (a root with tsconfig.json and
\* .eslintrc.json)
Roots == {"none", "package.json", "tsconfig.json"}

\* has_eslint_config(self.project_root)
has_eslint_config(root) == root = "tsconfig.json"

\* has_typescript_config(self.project_root): with no root it looks again from
\* the working directory, where the constructor found no tsconfig.json
has_typescript_config(root) == root = "tsconfig.json"

TscCmd(tsc, paths, root) ==
    <<tsc, "--noEmit", "--pretty", "false">>
      \o (IF root # "none" /\ has_typescript_config(root)
          THEN <<"--project", "tsconfig.json">>
          ELSE <<"--allowJs", "--checkJs", "--strict">> \o paths)

\* _run_tsc(paths); tsc = _find_executable("tsc"), proc = the outcome of
\* subprocess.run; neither is read when the adapter returns before it
_run_tsc(paths, root, tsc, proc) ==
    IF ~has_ts_files(paths) /\ ~has_typescript_config(root)
        THEN Returned(CheckResult(<<>>, 0, <<"tsc">>), "", <<>>)
    ELSE IF tsc = NoExe THEN Returned(ToolNotFound("tsc", "typescript"), Missing, <<>>)
    ELSE LET cmd == TscCmd(tsc, paths, root) IN
         CASE proc.kind = "TimeoutExpired"    -> Returned(Timeout("TypeScript compiler", "tsc"), Found, <<cmd>>)
           [] proc.kind = "FileNotFoundError" -> Returned(ToolNotFound("tsc", "typescript"), Found, <<cmd>>)
           [] proc.kind = "exit" ->
                Returned(CheckResult(TscLines(proc.stdout), 0, <<"tsc">>), Found, <<cmd>>)
           [] OTHER -> Raised(proc.kind, Found, <<cmd>>)

----------------------------------------------------------------------------
(* models.py: CheckConfig *)

DefaultExcludes ==
    << <<"n", "o", "d", "e", "_", "m", "o", "d", "u", "l", "e", "s", "/", "*", "*">>,
       <<"d", "i", "s", "t", "/", "*", "*">>,
       <<"b", "u", "i", "l", "d", "/", "*", "*">>,
       <<".", "n", "e", "x", "t", "/", "*", "*">>,
       <<"c", "o", "v", "e", "r", "a", "g", "e", "/", "*", "*">>,
       <<"*", ".", "m", "i", "n", ".", "j", "s">> >>

\* the descriptions of CheckConfig.stub_patterns, in order; the patterns
\* themselves are applied in Line
StubDescriptions ==
    << "TODO comment", "FIXME comment", "HACK comment", "XXX comment",
       "Not implemented error", "TODO error", "Console statement (debugging)",
       "Explicit 'any' type", "Type assertion to 'any'" >>

CheckConfig(e, p, t, s) ==
    [enable_eslint |-> e, enable_prettier |-> p, enable_tsc |-> t, enable_stub_check |-> s,
     exclude_patterns |-> DefaultExcludes]

Configs == {CheckConfig(e, p, t, s) : e \in BOOLEAN, p \in BOOLEAN, t \in BOOLEAN, s \in BOOLEAN}

----------------------------------------------------------------------------
(* checker.py: the stub scanner *)

\* str.lower()
LowerChar(c) ==
    CASE c = "A" -> "a" 
      [] c = "B" -> "b" [] c = "C" -> "c" [] c = "D" -> "d" [] c = "E" -> "e" [] c = "F" -> "f" [] c = "G" -> "g" [] c = "H" -> "h" [] c = "I" -> "i" [] c = "J" -> "j" [] c = "K" -> "k" [] c = "L" -> "l" [] c = "M" -> "m" [] c = "N" -> "n" [] c = "O" -> "o" [] c = "P" -> "p" [] c = "Q" -> "q" [] c = "R" -> "r" [] c = "S" -> "s" [] c = "T" -> "t" [] c = "U" -> "u" [] c = "V" -> "v" [] c = "W" -> "w" [] c = "X" -> "x" [] c = "Y" -> "y" [] c = "Z" -> "z"
      [] OTHER -> c
Lower(cs) == [k \in 1..Len(cs) |-> LowerChar(cs[k])]

\* _should_exclude(path) for one pattern
ExcludedBy(pattern, p) ==
    IF EndsWith(pattern, <<"/", "*", "*">>)
        THEN Contains(Spell(p), SubSeq(pattern, 1, Len(pattern) - 3))
    ELSE IF StartsWith(pattern, <<"*", ".">>)
        THEN Suffix(p) = SubSeq(pattern, 2, Len(pattern))
    ELSE Contains(Spell(p), pattern)

_should_exclude(cfg, p) ==
    \E k \in 1..Len(cfg.exclude_patterns) : ExcludedBy(cfg.exclude_patterns[k], p)

LegitNames == {"jest.config.js", "webpack.config.js", "vite.config.ts"}

RECURSIVE Join(_)
Join(cs) == IF cs = <<>> THEN "" ELSE Head(cs) \o Join(Tail(cs))

\* _is_legitimate_pattern, rules 1 to 3: what the path alone decides
\* (lines 476-488)
LegitPathCaseSensitive(p) ==
    LET file_str == Spell(p) IN
    \/ Contains(file_str, <<"t", "e", "s", "t">>)
    \/ Contains(file_str, <<"s", "p", "e", "c">>)
    \/ Contains(file_str, <<"_", "_", "t", "e", "s", "t", "s", "_", "_">>)
    \/ Join(NameChars(Spell(p))) \in LegitNames
    \/ Suffix(p) = <<".", "d", ".", "t", "s">>
LegitPath(p) ==
    LET file_str == Lower(Spell(p)) IN
    \/ Contains(file_str, <<"t", "e", "s", "t">>)
    \/ Contains(file_str, <<"s", "p", "e", "c">>)
    \/ Contains(file_str, <<"_", "_", "t", "e", "s", "t", "s", "_", "_">>)
    \/ Join(NameChars(Spell(p))) \in LegitNames
    \/ Suffix(p) = <<".", "d", ".", "t", "s">>

\* rule 4, its path half (line 491)
ScriptsPath(p) ==
    LET file_str == Lower(Spell(p)) IN
    \/ Contains(file_str, <<"/", "s", "c", "r", "i", "p", "t", "s", "/">>)
    \/ Contains(file_str, <<"/", "t", "o", "o", "l", "s", "/">>)

PathRules == [p \in KnownPaths |-> [legit |-> LegitPath(p), scripts |-> ScriptsPath(p)]]

\* _is_legitimate_pattern(file_path, line_num, line, lines)
_is_legitimate_patternScriptsOnly(p, line) ==
    PathRules[p].scripts /\ line.console
_is_legitimate_pattern(p, line) ==
    \/ PathRules[p].legit
    \/ PathRules[p].scripts /\ line.console

StubIssueFromZero(p, line_num, line, rule) ==
    Issue(p, line_num - 1, 1, "STUB", StubDescriptions[rule] \o ": " \o line.text, WARNING, "stub-check")
StubIssue(p, line_num, line, rule) ==
    Issue(p, line_num, 1, "STUB", StubDescriptions[rule] \o ": " \o line.text, WARNING, "stub-check")

\* the inner loop of _check_file_for_stubs: the rules from `rule` on, for one line
RECURSIVE StubRules(_, _, _, _)
StubRules(p, line_num, line, rule) ==
    IF rule > Len(StubDescriptions) THEN <<>>
    ELSE (IF rule \in line.matches /\ ~_is_legitimate_pattern(p, line)
          THEN <<StubIssue(p, line_num, line, rule)>> ELSE <<>>)
         \o StubRules(p, line_num, line, rule + 1)

\* the outer loop: the lines from line_num on
RECURSIVE StubLines(_, _, _)
StubLines(p, lines, line_num) ==
    IF line_num > Len(lines) THEN <<>>
    ELSE StubRules(p, line_num, lines[line_num], 1) \o StubLines(p, lines, line_num + 1)

\* _check_file_for_stubs(file_path); a file that cannot be read gives no issue
_check_file_for_stubs(p, unreadable) ==
    IF p \in unreadable THEN <<>> ELSE StubLines(p, ReadLines(p), 1)

\* the files _run_stub_check hands to _check_file_for_stubs, in order
RECURSIVE StubDirFiles(_, _, _)
StubDirFiles(cfg, fs, k) ==
    IF k > Len(fs) THEN <<>>
    ELSE (IF _should_exclude(cfg, fs[k]) THEN <<>> ELSE <<fs[k]>>) \o StubDirFiles(cfg, fs, k + 1)

RECURSIVE StubDirExts(_, _, _)
StubDirExts(cfg, p, exts) ==
    IF exts = <<>> THEN <<>>
    ELSE StubDirFiles(cfg, rglob(p, Head(exts)), 1) \o StubDirExts(cfg, p, Tail(exts))

RECURSIVE StubTargets(_, _, _)
StubTargets(cfg, paths, exts) ==
    IF paths = <<>> THEN <<>>
    ELSE (IF is_file(Head(paths)) /\ Suffix(Head(paths)) \in ALL_EXTENSIONS THEN <<Head(paths)>>
          ELSE IF is_dir(Head(paths)) THEN StubDirExts(cfg, Head(paths), exts)
          ELSE <<>>)
         \o StubTargets(cfg, Tail(paths), exts)

RECURSIVE StubAll(_, _)
StubAll(files, unreadable) ==
    IF files = <<>> THEN <<>>
    ELSE _check_file_for_stubs(Head(files), unreadable) \o StubAll(Tail(files), unreadable)

\* _run_stub_check(paths); exts = the order in which ALL_EXTENSIONS is iterated,
\* unreadable = the files whose read_text raises
_run_stub_check(cfg, paths, exts, unreadable) ==
    CheckResult(StubAll(StubTargets(cfg, paths, exts), unreadable), 0, <<"stub-check">>)

----------------------------------------------------------------------------
(* One call of check_files or check_content *)

VARIABLES
    config,      \* the checker's CheckConfig
    root,        \* the checker's project_root
    entry,       \* the method called: "check_files" or "check_content"
    paths,       \* check_files: the paths argument
    fix,         \* check_files: the fix argument
    content,     \* check_content: the lines of the content argument
    filename,    \* check_content: the filename argument
    pc,          \* the statement the call is at
    results,     \* check_files: the local variable results
    ret,         \* NotYet, or the CheckResult the call returned
    exc,         \* "", or the exception that left the call
    log          \* what the call did, in order: adapters called and left,
                 \* commands launched, files scanned for stubs

callVars == <<config, root, entry, paths, fix, content, filename, pc, results, ret, exc, log, temp>>
vars == <<predVars, mergeVars, callVars, fnVars>>

CheckNames == {"eslint", "prettier", "tsc", "stub-check"}

\* Iteration orders of a set of check names, one per sample of the process's
\* string hashes: the order of the calls, its reverse, and a mixed one.  Every
\* merge draws its own, so two merges of one call need not agree.
HashOrders ==
    { <<"eslint", "prettier", "tsc", "stub-check">>,
      <<"stub-check", "tsc", "prettier", "eslint">>,
      <<"tsc", "eslint", "stub-check", "prettier">> }

\* the events of the log: a sub-check is called, asks for its executable,
\* launches a command (args: the command line after the executable) which ends
\* (args: "exit", or the exception subprocess.run raised), scans a file (name:
\* the file), and returns its result or raises
Event(ev, name, args, result) == [ev |-> ev, name |-> name, args |-> args, result |-> result]
Called(name)        == Event("call", name, <<>>, EmptyResult)
Lookup(name, found) == Event("lookup", name, <<found>>, EmptyResult)
Launched(name, cmd) == Event("launch", name, Tail(cmd), EmptyResult)
Ended(name, how)    == Event("ended", name, <<how>>, EmptyResult)
Scanned(p)          == Event("scan", p, <<>>, EmptyResult)
Left(name, r)       == Event(IF r.exc = "" THEN "return" ELSE "raise", name, <<r.exc>>, r.result)

\* _find_executable(name): localExists = <root>/node_modules/.bin/<name> exists,
\* which = shutil.which(name)
_find_executable(name, localExists, which) ==
    IF root # "none" /\ localExists THEN Exe("local", name) ELSE which
Whiches(name) == {Exe("global", name), NoExe}

TempStem == "/tmp/tmpk3x9q2ab"

\* the names tempfile.NamedTemporaryFile can pick, before the suffix: "tmp" and
\* eight characters drawn at random from a-z, 0-9 and _, in the temporary
\* directory; two of them
TempStems == {TempStem, "/tmp/tmptest_0ab"}

\* the file a tool reports about, for the paths it was given
ReportFile(ps) ==
    IF ps = <<>> THEN ""
    ELSE IF is_dir(Head(ps)) THEN DirListing(Head(ps))[1]
    ELSE Head(ps)

\* A tool prints the path of a file its own way: as it was given, or relative
\* to the working directory (the temporary file lies outside the project).
RelativeForm(p) ==
    IF p = TempStem \o ".ts" THEN "../../tmp/tmpk3x9q2ab.ts" ELSE p
ReportFiles(ps) == {ReportFile(ps), RelativeForm(ReportFile(ps))}

\* What subprocess.run can do for each tool.  The launch can fail with an
\* OSError other than FileNotFoundError (PermissionError for a file in
\* node_modules/.bin that is not executable).
LaunchFailures == {TimedOut, LaunchFailed("FileNotFoundError"), LaunchFailed("PermissionError")}

Msg(fields) == JObj(fields)
FileResult(f, msgs) == JObj([filePath |-> JStr(f), messages |-> JArr(msgs)])
MsgError   == Msg([ruleId |-> JStr("no-unused-vars"), severity |-> JNum(2), message |-> JStr("unused"),
                   line |-> JNum(3), column |-> JNum(7)])
MsgWarning == Msg([ruleId |-> JNull, severity |-> JNum(1), message |-> JStr("parse"), line |-> JNum(1)])
MsgBadFix  == Msg([ruleId |-> JStr("semi"), severity |-> JNum(2), message |-> JStr("semi"),
                   fix |-> JStr("insert ;")])

EslintExits(f) ==
    { Exited(0, Json(JArr(<<>>))),
      Exited(1, Json(JArr(<<FileResult(f, <<MsgError, MsgWarning>>)>>))),
      Exited(2, Blank),
      Exited(2, NotJson),
      Exited(0, Json(JNum(5))),
      Exited(0, Json(JStr("ok"))),
      Exited(0, Json(JObj([error |-> JStr("crash")]))),
      Exited(0, Json(JArr(<<JNum(1)>>))),
      Exited(1, Json(JArr(<<FileResult(f, <<MsgBadFix>>)>>))) }

PrettierExits(f) ==
    { Exited(0, <<PLine("Checking", "Checking formatting...", ""),
                  PLine("", "All matched files use Prettier code style!", "")>>),
      Exited(1, <<PLine("Checking", "Checking formatting...", ""),
                  PLine("[warn]", f, f),
                  PLine("", f, f),
                  PLine("[warn]", "Code style issues found in the above file. Run Prettier with --write to fix.", "")>>),
      Exited(2, <<>>) }

TscExits(f) ==
    { Exited(0, <<>>),
      Exited(2, <<TLine(f, 1, 7, "error", "TS2322", "Type 'string' is not assignable to type 'number'."),
                  TOther,
                  TLine(f, 2, 1, "warning", "TS6133", "'y' is declared but never used.")>>),
      Exited(1, <<TOther>>) }

\* the inputs of a call
FileCalls ==
    { [paths |-> <<"a.ts">>, fix |-> FALSE],
      [paths |-> <<"a.ts">>, fix |-> TRUE],
      [paths |-> <<"b.js">>, fix |-> FALSE],
      [paths |-> <<"src", "gone.ts">>, fix |-> FALSE],
      [paths |-> <<>>, fix |-> TRUE] }
Contents  == {<<LAny, LTodo>>}
Filenames == {"example.ts", "Makefile"}

Init ==
    /\ pR = EmptyResult /\ pOut = NotYet
    /\ mA = EmptyResult /\ mB = EmptyResult /\ mC = EmptyResult /\ mOut = NotYet
    /\ config \in Configs
    /\ root \in Roots
    /\ entry \in {"check_files", "check_content"}
    /\ IF entry = "check_files"
       THEN (\E c \in FileCalls : paths = c.paths /\ fix = c.fix) /\ content = <<>> /\ filename = ""
       ELSE paths = <<>> /\ fix = FALSE /\ content \in Contents /\ filename \in Filenames
    /\ pc = "call"
    /\ results = EmptyResult
    /\ ret = NotYet
    /\ exc = ""
    /\ log = <<>>
    /\ temp = NoTemp
    /\ FnIdle

\* Path(temp_path).unlink(missing_ok=True)
Unlinked == [temp EXCEPT !.exists = FALSE]

\* check_content, lines 83-87: the temporary file is created, the content is
\* written into it and it is closed; creating can fail (OSError), and so can
\* writing (OSError; UnicodeEncodeError for content holding a lone surrogate)
check_content_begin ==
    /\ pc = "call" /\ entry = "check_content"
    /\ LET ext == IF Suffix(filename) # <<>> THEN Suffix(filename) ELSE <<".", "t", "s">>
       IN \E stem \in TempStems, outcome \in {"written", "create fails", "write fails"} :
            LET temp_path == stem \o Join(ext) IN
            CASE outcome = "written" ->
                   /\ temp' = [path |-> temp_path, exists |-> TRUE, lines |-> content]
                   /\ paths' = <<temp_path>>
                   /\ pc' = "count"
                   /\ exc' = exc
              [] outcome = "create fails" ->
                   /\ temp' = temp
                   /\ paths' = paths
                   /\ pc' = "raised"
                   /\ exc' = "OSError"
              [] outcome = "write fails" ->
                   /\ temp' = [path |-> temp_path, exists |-> TRUE, lines |-> <<>>]
                   /\ paths' = paths
                   /\ pc' = "raised"
                   /\ exc' \in {"OSError", "UnicodeEncodeError"}
    /\ UNCHANGED <<fnVars, predVars, mergeVars, config, root, entry, fix, content, filename, results, ret, log>>

\* check_files, lines 48-52
check_files_begin ==
    /\ (pc = "call" /\ entry = "check_files") \/ pc = "count"
    /\ LET ps == IF paths = <<>> THEN <<".">> ELSE paths IN
       /\ paths' = ps
       /\ \E exts \in ExtOrders :
            results' = CheckResult(<<>>, _count_ts_js_files(ps, exts), <<>>)
    /\ pc' = "eslint"
    /\ UNCHANGED <<fnVars, predVars, mergeVars, config, root, entry, fix, content, filename, ret, exc, log, temp>>

\* an enabled sub-check was called and gave r: its result is merged, or its
\* exception leaves check_files (and check_content, through its finally)
SubCheckDone(name, r, how, scanned, next) ==
    /\ log' = log \o <<Called(name)>>
                  \o (IF r.lookup = "" THEN <<>> ELSE <<Lookup(name, r.lookup)>>)
                  \o [k \in 1..Len(r.cmds) |-> Launched(name, r.cmds[k])]
                  \o (IF r.cmds = <<>> THEN <<>> ELSE <<Ended(name, how)>>)
                  \o [k \in 1..Len(scanned) |-> Scanned(scanned[k])]
                  \o <<Left(name, r)>>
    /\ IF r.exc = ""
       THEN /\ \E ord \in HashOrders : results' = merge(results, r.result, ord)
            /\ pc' = next
            /\ UNCHANGED <<exc, temp>>
       ELSE /\ exc' = r.exc
            /\ pc' = "raised"
            /\ temp' = IF entry = "check_content" THEN Unlinked ELSE temp
            /\ UNCHANGED results
    /\ UNCHANGED <<fnVars, predVars, mergeVars, config, root, entry, paths, fix, content, filename, ret>>

SubCheckSkipped(next) ==
    /\ pc' = next
    /\ UNCHANGED <<fnVars, predVars, mergeVars, config, root, entry, paths, fix, content, filename,
                   results, ret, exc, log, temp>>

\* the toggle that gates each sub-check (lines 54, 58, 62, 66)
enabledStubAlways(cfg, name) ==
    CASE name = "eslint"     -> cfg.enable_eslint
      [] name = "prettier"   -> cfg.enable_prettier
      [] name = "tsc"        -> cfg.enable_tsc
      [] name = "stub-check" -> TRUE
enabled(cfg, name) ==
    CASE name = "eslint"     -> cfg.enable_eslint
      [] name = "prettier"   -> cfg.enable_prettier
      [] name = "tsc"        -> cfg.enable_tsc
      [] name = "stub-check" -> cfg.enable_stub_check

\* lines 54-56
eslint_step ==
    /\ pc = "eslint"
    /\ IF enabled(config, "eslint")
       THEN \E localExists \in BOOLEAN, which \in Whiches("eslint"), f \in ReportFiles(paths) :
               \E proc \in LaunchFailures \cup EslintExits(f) :
              SubCheckDone("eslint",
                           _run_eslint(paths, fix, _find_executable("eslint", localExists, which),
                                       has_eslint_config(root), proc),
                           proc.kind, <<>>, "prettier")
       ELSE SubCheckSkipped("prettier")

\* lines 58-60
prettier_step ==
    /\ pc = "prettier"
    /\ IF enabled(config, "prettier")
       THEN \E localExists \in BOOLEAN, which \in Whiches("prettier"), f \in ReportFiles(paths) :
               \E proc \in LaunchFailures \cup PrettierExits(f) :
              SubCheckDone("prettier",
                           _run_prettier(paths, fix, _find_executable("prettier", localExists, which), proc),
                           proc.kind, <<>>, "tsc")
       ELSE SubCheckSkipped("tsc")

\* lines 62-64
tsc_step ==
    /\ pc = "tsc"
    /\ IF enabled(config, "tsc")
       THEN \E localExists \in BOOLEAN, which \in Whiches("tsc"), f \in ReportFiles(paths) :
               \E proc \in LaunchFailures \cup TscExits(f) :
              SubCheckDone("tsc",
                           _run_tsc(paths, root, _find_executable("tsc", localExists, which), proc),
                           proc.kind, <<>>, "stub")
       ELSE SubCheckSkipped("stub")

UnreadableSets == {{}, {"src/a.ts"}}

\* lines 66-68
stub_step ==
    /\ pc = "stub"
    /\ IF enabled(config, "stub-check")
       THEN \E exts \in ExtOrders, unreadable \in UnreadableSets :
              SubCheckDone("stub-check",
                           Returned(_run_stub_check(config, paths, exts, unreadable), "", <<>>),
                           "", StubTargets(config, paths, exts), "return")
       ELSE SubCheckSkipped("return")

\* check_content, lines 92-94: issues that carry the temporary path get the
\* caller's filename
Rewritten(issues) ==
    [k \in 1..Len(issues) |->
        IF issues[k].file = temp.path THEN [issues[k] EXCEPT !.file = filename] ELSE issues[k]]

\* line 70: check_files returns; in check_content, lines 91-97 follow
return_step ==
    /\ pc = "return"
    /\ pc' = "done"
    /\ IF entry = "check_files"
       THEN ret' = [done |-> TRUE, result |-> results] /\ temp' = temp
       ELSE /\ ret' = [done |-> TRUE, result |-> [results EXCEPT !.issues = Rewritten(results.issues)]]
            /\ temp' = Unlinked
    /\ UNCHANGED <<fnVars, predVars, mergeVars, config, root, entry, paths, fix, content, filename, results, exc, log>>

Next ==
    \/ check_content_begin
    \/ check_files_begin
    \/ eslint_step
    \/ prettier_step
    \/ tsc_step
    \/ stub_step
    \/ return_step

Spec == Init /\ [][Next]_vars

----------------------------------------------------------------------------
(* The idle values a specification gives the variables it does not use *)

CallStill ==
    /\ config = CheckConfig(FALSE, FALSE, FALSE, FALSE)
    /\ root = "none" /\ entry = "none" /\ paths = <<>> /\ fix = FALSE
    /\ content = <<>> /\ filename = "" /\ pc = "idle"
    /\ results = EmptyResult /\ ret = NotYet /\ exc = "" /\ log = <<>>

CallIdle == CallStill /\ temp = NoTemp

----------------------------------------------------------------------------
(* SpecPred: CheckResult.success and CheckResult.clean on one result *)

InitPred ==
    /\ pR \in PredResults /\ pOut = NotYet
    /\ mA = EmptyResult /\ mB = EmptyResult /\ mC = EmptyResult /\ mOut = NotYet
    /\ CallIdle /\ FnIdle

evaluate ==
    /\ pOut = NotYet
    /\ pOut' = [done |-> TRUE, success |-> success(pR), clean |-> clean(pR)]
    /\ UNCHANGED <<pR, mergeVars, callVars, fnVars>>

SpecPred == InitPred /\ [][evaluate]_vars

----------------------------------------------------------------------------
(* SpecMerge: CheckResult.merge on three results *)

InitMerge ==
    /\ \E lt \in ListTriples, ft \in FileTriples :
         /\ mA = CheckResult(lt[1][1], ft[1], lt[2][1])
         /\ mB = CheckResult(lt[1][2], ft[2], lt[2][2])
         /\ mC = CheckResult(lt[1][3], ft[3], lt[2][3])
    /\ mOut = NotYet
    /\ pR = EmptyResult /\ pOut = NotYet
    /\ CallIdle /\ FnIdle

\* a.merge(b)
merge_pair ==
    /\ mOut = NotYet
    /\ \E ord \in MergeOrders :
         mOut' = [done |-> TRUE, op |-> "pair", ab |-> merge(mA, mB, ord)]
    /\ UNCHANGED <<mA, mB, mC, predVars, callVars, fnVars>>

\* a.merge(b).merge(c) and a.merge(b.merge(c))
merge_assoc ==
    /\ mOut = NotYet
    /\ \E o1, o2, o3, o4 \in MergeOrders :
         mOut' = [done |-> TRUE, op |-> "assoc",
                  left  |-> merge(merge(mA, mB, o1), mC, o2),
                  right |-> merge(mA, merge(mB, mC, o3), o4)]
    /\ UNCHANGED <<mA, mB, mC, predVars, callVars, fnVars>>

\* a.merge(CheckResult()) and CheckResult().merge(a)
merge_identity ==
    /\ mOut = NotYet
    /\ \E o1, o2 \in MergeOrders :
         mOut' = [done |-> TRUE, op |-> "identity",
                  right |-> merge(mA, EmptyResult, o1),
                  left  |-> merge(EmptyResult, mA, o2)]
    /\ UNCHANGED <<mA, mB, mC, predVars, callVars, fnVars>>

NextMerge == merge_pair \/ merge_assoc \/ merge_identity

SpecMerge == InitMerge /\ [][NextMerge]_vars

----------------------------------------------------------------------------
(* Claims about CheckResult *)

\* Two results compared field by field; checks_run is a set of names whose
\* listing order list(set(...)) leaves open, so it is compared as a set.
SameResult(x, y) ==
    /\ x.issues = y.issues
    /\ x.files_checked = y.files_checked
    /\ Range(x.checks_run) = Range(y.checks_run)

NoRepeat(xs) == \A a, b \in 1..Len(xs) : xs[a] = xs[b] => a = b

\* C1: merge is associative and the empty CheckResult is its identity:
\* merge(merge(A,B),C) equals merge(A,merge(B,C)) and merge(A, empty) equals A,
\* in issues, files_checked and checks_run (the names, whatever their order).
C1_MergeAssociativeIdentity ==
    /\ (mOut.done /\ mOut.op = "assoc") => SameResult(mOut.left, mOut.right)
    /\ (mOut.done /\ mOut.op = "identity") => SameResult(mOut.right, mA)

\* both groupings were merged, and they list the same two names in different
\* orders
C1_Witness ==
    /\ mOut.done /\ mOut.op = "assoc"
    /\ Len(mOut.left.checks_run) = 2
    /\ mOut.left.checks_run # mOut.right.checks_run

\* C2: merge(A, B) has the issues of A followed by those of B (duplicates
\* kept), files_checked = max of the two, and checks_run holding exactly the
\* names of A or B, each once; A and B stay as they were.
C2_MergeResult ==
    (mOut.done /\ mOut.op = "pair") =>
        /\ mOut.ab.issues = mA.issues \o mB.issues
        /\ mOut.ab.files_checked = Max(mA.files_checked, mB.files_checked)
        /\ Range(mOut.ab.checks_run) = Range(mA.checks_run) \cup Range(mB.checks_run)
        /\ NoRepeat(mOut.ab.checks_run)
C2_MergeLaw == []C2_MergeResult /\ [][mA' = mA /\ mB' = mB]_vars

\* A and B hold the same issue and both count a file: the merge lists the issue
\* twice and counts one file
C2_Witness ==
    /\ mOut.done /\ mOut.op = "pair"
    /\ Len(mA.issues) = 1 /\ mA.issues = mB.issues
    /\ mA.files_checked = 1 /\ mB.files_checked = 1

\* C3: success is true exactly when no issue has severity error; warnings and
\* infos never make it false.
C3_SuccessIffNoError ==
    pOut.done =>
        (pOut.success <=> \A k \in 1..Len(pR.issues) : pR.issues[k].severity # ERROR)

\* a result holding a warning and an info, and no error, was found successful
C3_Witness ==
    /\ pOut.done /\ pOut.success
    /\ \E k \in 1..Len(pR.issues) : pR.issues[k].severity = WARNING
    /\ \E k \in 1..Len(pR.issues) : pR.issues[k].severity = INFO

\* C4: clean is true exactly when the issue list is empty, and clean implies
\* success.
C4_CleanIffEmpty ==
    pOut.done =>
        /\ pOut.clean <=> pR.issues = <<>>
        /\ pOut.clean => pOut.success

\* a result holding one issue, no error, was found successful and not clean
C4_Witness ==
    /\ pOut.done /\ ~pOut.clean /\ pOut.success
    /\ Len(pR.issues) = 1

----------------------------------------------------------------------------
(* Claims about check_files and check_content *)

\* the place of each sub-check in check_files, and of each statement of the call
Rank(name) ==
    CASE name = "eslint" -> 1 [] name = "prettier" -> 2 [] name = "tsc" -> 3 [] name = "stub-check" -> 4
PcRank ==
    CASE pc = "eslint" -> 1 [] pc = "prettier" -> 2 [] pc = "tsc" -> 3 [] pc = "stub" -> 4
      [] pc \in {"return", "done"} -> 5
      [] OTHER -> 0

\* the names whose toggle is on in the configuration of the call
Toggled ==
    (IF config.enable_eslint THEN {"eslint"} ELSE {})
    \cup (IF config.enable_prettier THEN {"prettier"} ELSE {})
    \cup (IF config.enable_tsc THEN {"tsc"} ELSE {})
    \cup (IF config.enable_stub_check THEN {"stub-check"} ELSE {})

WasCalled(name) == \E k \in 1..Len(log) : log[k].ev = "call" /\ log[k].name = name

\* the issues the adapters returned, in the order of their returns
RECURSIVE Emitted(_)
Emitted(l) ==
    IF l = <<>> THEN <<>>
    ELSE (IF Head(l).ev = "return" THEN Head(l).result.issues ELSE <<>>) \o Emitted(Tail(l))

\* C5: the sub-checks are called in the order eslint, prettier, tsc,
\* stub-check, none twice, each leaving before the next is called; the issues of
\* the running total, and of the result check_files returns, are the adapters'
\* issues group after group in that order, each group as its adapter returned
\* it, and every issue of a group carries its adapter's name.
C5_FixedOrderGrouped ==
    /\ \A i, j \in 1..Len(log) :
         (i < j /\ log[i].ev = "call" /\ log[j].ev = "call") => Rank(log[i].name) < Rank(log[j].name)
    /\ \A i \in 1..Len(log) :
         log[i].ev = "call" =>
            \E j \in (i+1)..Len(log) :
               /\ log[j].ev \in {"return", "raise"} /\ log[j].name = log[i].name
               /\ \A k \in (i+1)..(j-1) : log[k].ev \notin {"call", "return", "raise"}
    /\ \A i \in 1..Len(log) :
         log[i].ev = "return" =>
            \A k \in 1..Len(log[i].result.issues) : log[i].result.issues[k].source = log[i].name
    /\ results.issues = Emitted(log)
    /\ \A a, b \in 1..Len(results.issues) :
         a < b => Rank(results.issues[a].source) <= Rank(results.issues[b].source)
    /\ (ret.done /\ entry = "check_files") => ret.result.issues = Emitted(log)

\* check_files returned issues of all four sub-checks, two or more of one of them
C5_Witness ==
    /\ ret.done /\ entry = "check_files"
    /\ {ret.result.issues[k].source : k \in 1..Len(ret.result.issues)} = CheckNames
    /\ Len(ret.result.issues) > 4

\* C6: the toggles gate independently.  Only sub-checks whose toggle is on are
\* called, leave issues or a checks_run entry; every one whose toggle is on has
\* been called once the call is past its place; and the checks_run of the result
\* check_files returns is, as a set, exactly the names whose toggle is on.
C6_TogglesIndependent ==
    /\ \A k \in 1..Len(log) : log[k].ev \in {"call", "lookup", "launch", "return", "raise"} => log[k].name \in Toggled
    /\ (\E k \in 1..Len(log) : log[k].ev = "scan") => "stub-check" \in Toggled
    /\ \A k \in 1..Len(results.issues) : results.issues[k].source \in Toggled
    /\ Range(results.checks_run) \subseteq Toggled
    /\ \A n \in Toggled : Rank(n) < PcRank => WasCalled(n)
    /\ pc \in {"return", "done"} => Range(results.checks_run) = Toggled
    /\ ret.done => Range(ret.result.checks_run) = Toggled

\* check_files returned with eslint off and the three others on: prettier timed
\* out, tsc found nothing to compile and launched nothing, the stub scanner ran
C6_Witness ==
    /\ ret.done /\ entry = "check_files"
    /\ Toggled = {"prettier", "tsc", "stub-check"}
    /\ \E k \in 1..Len(ret.result.issues) : ret.result.issues[k].code = "TIMEOUT"
    /\ ~ \E k \in 1..Len(log) : log[k].ev \in {"lookup", "launch"} /\ log[k].name = "tsc"
    /\ \E k \in 1..Len(log) : log[k].ev = "scan"

LaunchExceptions == {"TimeoutExpired", "FileNotFoundError", "PermissionError"}

\* C8: no failure to run an external tool aborts the call: no adapter leaves by
\* the exception of a failed launch or of a timeout, so check_files goes on to
\* the next sub-check and returns.
C8_NoFailureAborts ==
    /\ \A k \in 1..Len(log) : log[k].ev = "raise" => log[k].args[1] \notin LaunchExceptions
    /\ pc = "raised" => exc \notin LaunchExceptions

\* the exceptions the linter's output handling raises on JSON of another shape
ShapeExceptions == {"TypeError", "AttributeError"}

\* C9: output of an unexpected shape yields zero issues and no exception: no
\* adapter leaves by an exception raised while reading its tool's output.
C9_MalformedYieldsNothing ==
    /\ \A k \in 1..Len(log) : log[k].ev = "raise" => log[k].args[1] \notin ShapeExceptions
    /\ pc = "raised" => exc \notin ShapeExceptions

\* C10: when _find_executable finds no eslint (no prettier), the adapter
\* launches nothing and returns one issue TOOL-NOT-FOUND, a warning with file
\* "", line 0, column 0, and checks_run [eslint] ([prettier]); that result is
\* successful, the call goes on to the next sub-check, and every later sub-check
\* whose toggle is on has been called when the call returns.
C10_MissingTool ==
    \A k \in 1..Len(log) :
        (log[k].ev = "lookup" /\ log[k].name \in {"eslint", "prettier"} /\ log[k].args = <<Missing>>) =>
            /\ k < Len(log)
            /\ log[k+1].ev = "return" /\ log[k+1].name = log[k].name
            /\ ~ \E j \in 1..Len(log) : log[j].ev = "launch" /\ log[j].name = log[k].name
            /\ LET r == log[k+1].result IN
                 /\ Len(r.issues) = 1
                 /\ r.issues[1].code = "TOOL-NOT-FOUND"
                 /\ r.issues[1].severity = WARNING
                 /\ r.issues[1].file = "" /\ r.issues[1].line = 0 /\ r.issues[1].column = 0
                 /\ r.checks_run = <<log[k].name>>
                 /\ success(r)
            /\ k + 1 = Len(log) => PcRank > Rank(log[k].name)
            /\ ret.done => \A n \in Toggled : WasCalled(n)

\* eslint and prettier were both missing, the stub scanner still scanned a file,
\* and the returned result holds the two warnings and is successful
C10_Witness ==
    /\ ret.done
    /\ \A n \in {"eslint", "prettier"} :
         \E k \in 1..Len(log) : log[k].ev = "lookup" /\ log[k].name = n /\ log[k].args = <<Missing>>
    /\ \E k \in 1..Len(log) : log[k].ev = "scan"
    /\ Cardinality({k \in 1..Len(ret.result.issues) : ret.result.issues[k].code = "TOOL-NOT-FOUND"}) = 2
    /\ success(ret.result)

\* C11: when a launched tool runs past its 120 seconds, the adapter returns
\* exactly one issue, TIMEOUT with severity error, and its name in checks_run;
\* the call goes on to the next sub-check, every later sub-check whose toggle is
\* on has been called when the call returns, and the returned result is not
\* successful.
C11_Timeout ==
    \A k \in 1..Len(log) :
        (log[k].ev = "ended" /\ log[k].args = <<"TimeoutExpired">>) =>
            /\ k < Len(log)
            /\ log[k+1].ev = "return" /\ log[k+1].name = log[k].name
            /\ LET r == log[k+1].result IN
                 /\ Len(r.issues) = 1
                 /\ r.issues[1].code = "TIMEOUT"
                 /\ r.issues[1].severity = ERROR
                 /\ r.checks_run = <<log[k].name>>
                 /\ ~success(r)
            /\ k + 1 = Len(log) => PcRank > Rank(log[k].name)
            /\ ret.done => (~success(ret.result) /\ \A n \in Toggled : WasCalled(n))

\* eslint timed out, the stub scanner still scanned a file, and check_files
\* returned a result that is not successful
C11_Witness ==
    /\ ret.done /\ entry = "check_files"
    /\ \E k \in 1..Len(log) : log[k].ev = "ended" /\ log[k].name = "eslint" /\ log[k].args = <<"TimeoutExpired">>
    /\ \E k \in 1..Len(log) : log[k].ev = "scan"
    /\ ~success(ret.result)

\* C12: whenever check_content has ended, returning or raising, its temporary
\* file does not exist.
C12_TempRemoved ==
    (entry = "check_content" /\ pc \in {"done", "raised"}) => ~temp.exists

\* the forms in which the temporary path can come back in an issue
TempForms == {temp.path, RelativeForm(temp.path)}

\* C13: in the result check_content returns, every issue an adapter reported
\* for the temporary file, in whatever form of its path, has file equal to the
\* caller's filename; no issue's file is the temporary path in any form; every
\* other issue is as its adapter returned it.
C13_FilenameRestored ==
    (ret.done /\ entry = "check_content") =>
        /\ Len(ret.result.issues) = Len(Emitted(log))
        /\ \A k \in 1..Len(ret.result.issues) :
             /\ ret.result.issues[k].file \notin TempForms
             /\ ret.result.issues[k] =
                  IF Emitted(log)[k].file \in TempForms
                  THEN [Emitted(log)[k] EXCEPT !.file = filename]
                  ELSE Emitted(log)[k]

\* the files that existed while the sub-checks ran
ExistedAtCall(p) == p \in StaticFiles \/ (entry = "check_content" /\ p = temp.path)

\* C14: when no given path is an existing file with a TypeScript extension and
\* the project root holds no tsconfig.json, the tsc adapter asks for no
\* executable, launches nothing and returns no issue with checks_run [tsc]; in
\* every other case it asks for the executable, and launches it when found.
C14_TscShortCircuit ==
    \A k \in 1..Len(log) :
        (log[k].ev = "call" /\ log[k].name = "tsc") =>
            /\ k < Len(log)
            /\ IF /\ \A i \in 1..Len(paths) :
                        ~(ExistedAtCall(paths[i]) /\ Suffix(paths[i]) \in TS_EXTENSIONS)
                  /\ root # "tsconfig.json"
               THEN /\ log[k+1].ev = "return"
                    /\ log[k+1].result = CheckResult(<<>>, 0, <<"tsc">>)
               ELSE /\ log[k+1].ev = "lookup"
                    /\ k + 1 < Len(log)
                    /\ log[k+1].args = <<Found>> => log[k+2].ev = "launch"
                    /\ log[k+1].args = <<Missing>> =>
                          (log[k+2].ev = "return" /\ log[k+2].result.issues[1].code = "TOOL-NOT-FOUND")

\* check_files(["b.js"]) in a project without tsconfig.json returned: tsc was
\* called and neither asked for its executable nor launched anything
C14_Witness ==
    /\ ret.done /\ paths = <<"b.js">> /\ root = "package.json"
    /\ WasCalled("tsc")
    /\ ~ \E k \in 1..Len(log) : log[k].ev \in {"lookup", "launch"} /\ log[k].name = "tsc"
    /\ Range(ret.result.checks_run) = Toggled

----------------------------------------------------------------------------
(* SpecConfig: config.py load_config and CheckConfig.from_dict *)

ToggleNames == {"enable_eslint", "enable_prettier", "enable_tsc", "enable_stub_check"}

\* The values under "amplifier-ts-dev": every setting of some of the toggles
\* (none of them sets exclude_patterns), and values that are no object
Sections ==
    {JObj(f) : f \in UNION {[D -> {JBool(TRUE), JBool(FALSE)}] : D \in SUBSET ToggleNames}}
    \cup {JNull, JStr("strict"), JArr(<<JNum(1)>>)}

\* What load_config finds: no project root; a root without package.json; a
\* package.json that cannot be opened, whose bytes are not utf-8, whose text is
\* not JSON; or one holding a JSON value
Manifests ==
    {[kind |-> k, value |-> JNull] : k \in {"no root", "absent", "unreadable", "undecodable", "not json"}}
    \cup {[kind |-> "json", value |-> v] :
            v \in {JNull, JNum(5), JArr(<<>>), JObj([name |-> JStr("app")])}
                  \cup {JObj("amplifier-ts-dev" :> sec) : sec \in Sections}}

ConfigOf(cfg)   == [done |-> TRUE, exc |-> "", config |-> cfg]
ConfigRaise(e)  == [done |-> TRUE, exc |-> e, config |-> CheckConfig(TRUE, TRUE, TRUE, TRUE)]

\* CheckConfig.from_dict(data)
from_dict(data) ==
    IF ~HasGet(data) THEN ConfigRaise("AttributeError")
    ELSE ConfigOf(CheckConfig(Get(data, "enable_eslint", JBool(TRUE)).b,
                              Get(data, "enable_prettier", JBool(TRUE)).b,
                              Get(data, "enable_tsc", JBool(TRUE)).b,
                              Get(data, "enable_stub_check", JBool(TRUE)).b))

\* load_config(project_root), by what it finds
load_config(m) ==
    CASE m.kind \in {"no root", "absent"} -> ConfigOf(CheckConfig(TRUE, TRUE, TRUE, TRUE))
      [] m.kind = "unreadable"  -> ConfigOf(CheckConfig(TRUE, TRUE, TRUE, TRUE))
      [] m.kind = "not json"    -> ConfigOf(CheckConfig(TRUE, TRUE, TRUE, TRUE))
      [] m.kind = "undecodable" -> ConfigRaise("UnicodeDecodeError")
      [] m.kind = "json" ->
           IF ~HasGet(m.value) THEN ConfigRaise("AttributeError")
           ELSE from_dict(Get(m.value, "amplifier-ts-dev", JObj(NoFields)))

InitConfig ==
    /\ fnArgs \in Manifests /\ fnOut = NotYet
    /\ pR = EmptyResult /\ pOut = NotYet
    /\ mA = EmptyResult /\ mB = EmptyResult /\ mC = EmptyResult /\ mOut = NotYet
    /\ CallIdle

load_config_call ==
    /\ fnOut = NotYet
    /\ fnOut' = load_config(fnArgs)
    /\ UNCHANGED <<fnArgs, predVars, mergeVars, callVars>>

SpecConfig == InitConfig /\ [][load_config_call]_vars

\* C15: load_config never raises, and returns the all-defaults CheckConfig
\* whenever there is no root, no package.json, or a package.json that is
\* unreadable or malformed: undecodable bytes, text that is not JSON, a top
\* level that is no object, an "amplifier-ts-dev" value that is no object.
C15_LoadConfigDefaults ==
    fnOut.done =>
        /\ fnOut.exc = ""
        /\ (\/ fnArgs.kind # "json"
            \/ fnArgs.value.t # "obj"
            \/ ("amplifier-ts-dev" \in DOMAIN fnArgs.value.f
                  /\ fnArgs.value.f["amplifier-ts-dev"].t # "obj"))
             => fnOut.config = CheckConfig(TRUE, TRUE, TRUE, TRUE)

----------------------------------------------------------------------------
(* SpecStub: checker.py _check_file_for_stubs on one file *)

\* the paths of the scanned file, as the caller gave them
StubPaths ==
    {"lib/util.ts", "index.js", "lib/test/util.ts", "lib/Spec/util.ts", "lib/latest.ts",
     "jest.config.js", "types.d.ts", "scripts/build.js", "/repo/scripts/build.js"}

InitStub ==
    /\ \E p \in StubPaths, ls \in SeqsUpTo({LTodo, LAny, LConsole, LPlain, LWarn}, MaxStubLines) :
         /\ temp = [path |-> p, exists |-> TRUE, lines |-> ls]
         /\ \E u \in BOOLEAN : fnArgs = [path |-> p, unreadable |-> u]
    /\ fnOut = NotYet
    /\ pR = EmptyResult /\ pOut = NotYet
    /\ mA = EmptyResult /\ mB = EmptyResult /\ mC = EmptyResult /\ mOut = NotYet
    /\ CallStill

scan_file ==
    /\ fnOut = NotYet
    /\ fnOut' = [done |-> TRUE,
                 issues |-> _check_file_for_stubs(fnArgs.path,
                                                  IF fnArgs.unreadable THEN {fnArgs.path} ELSE {})]
    /\ UNCHANGED <<fnArgs, predVars, mergeVars, callVars>>

SpecStub == InitStub /\ [][scan_file]_vars

\* the pairs <<line number, rule>> with the rule's pattern found in the line,
\* by line and then by rule
RECURSIVE Hits(_, _, _)
Hits(lines, l, r) ==
    IF l > Len(lines) THEN <<>>
    ELSE IF r > Len(StubDescriptions) THEN Hits(lines, l + 1, 1)
    ELSE (IF r \in lines[l].matches THEN <<<<l, r>>>> ELSE <<>>) \o Hits(lines, l, r + 1)

\* the paths of StubPaths to which no suppression rule applies: no test or spec
\* in them, no configuration file, no declaration file, no scripts or tools
PlainPaths == {"lib/util.ts", "index.js"}

\* C16: for a readable file to which no suppression rule applies, the scan
\* gives one issue for each pair (line, rule) whose pattern is found in the
\* line, case ignored, by line and then by rule: code STUB, severity warning,
\* the 1-based line number, column 1, the file as given.
C16_StubEmission ==
    (fnOut.done /\ fnArgs.path \in PlainPaths /\ ~fnArgs.unreadable) =>
        LET hits == Hits(temp.lines, 1, 1) IN
        /\ Len(fnOut.issues) = Len(hits)
        /\ \A k \in 1..Len(hits) :
             fnOut.issues[k] =
                Issue(fnArgs.path, hits[k][1], 1, "STUB",
                      StubDescriptions[hits[k][2]] \o ": " \o temp.lines[hits[k][1]].text,
                      WARNING, "stub-check")

\* a file whose second line is `// TODO: fix this`, the only matching one, gave
\* exactly one issue, at line 2
C16_Witness ==
    /\ fnOut.done /\ fnArgs.path = "lib/util.ts" /\ ~fnArgs.unreadable
    /\ temp.lines = <<LPlain, LTodo>>
    /\ Len(fnOut.issues) = 1 /\ fnOut.issues[1].line = 2

\* C17: a file whose path holds "test" or "spec", in any letter case, gives no
\* stub issue whatever its lines.
C17_TestPathSuppressed ==
    (fnOut.done /\ fnArgs.path \in {"lib/test/util.ts", "lib/Spec/util.ts", "lib/latest.ts"}) =>
        fnOut.issues = <<>>

\* lines that give issues elsewhere were scanned under lib/Spec/ and gave none
C17_Witness ==
    /\ fnOut.done /\ fnArgs.path = "lib/Spec/util.ts" /\ ~fnArgs.unreadable
    /\ temp.lines = <<LTodo, LConsole>>
    /\ fnOut.issues = <<>>

\* C21: a declaration file, its name ending in .d.ts and its path under no
\* other suppression rule, gives no stub issue whatever its lines.
C21_DeclarationSuppressed ==
    (fnOut.done /\ fnArgs.path = "types.d.ts") => fnOut.issues = <<>>

\* the paths of StubPaths in a scripts directory that rules 1 to 3 leave alone
ScriptsPaths == {"scripts/build.js", "/repo/scripts/build.js"}

\* C22: in a file of a scripts or tools directory, the path absolute or
\* relative, that rules 1 to 3 leave alone, the issues are those of the lines
\* the console rule does not match: a line is suppressed exactly when the
\* console rule matches it.
C22_ScriptsSuppression ==
    (fnOut.done /\ fnArgs.path \in ScriptsPaths /\ ~fnArgs.unreadable) =>
        LET hits == SelectSeq(Hits(temp.lines, 1, 1), LAMBDA h : 7 \notin temp.lines[h[1]].matches) IN
        /\ Len(fnOut.issues) = Len(hits)
        /\ \A k \in 1..Len(hits) :
             fnOut.issues[k] =
                Issue(fnArgs.path, hits[k][1], 1, "STUB",
                      StubDescriptions[hits[k][2]] \o ": " \o temp.lines[hits[k][1]].text,
                      WARNING, "stub-check")

\* what the scan does for such a file: under an absolute path the lines that
\* hold "console." are suppressed, under a relative path none is
ScriptsAsCoded ==
    (fnOut.done /\ fnArgs.path \in ScriptsPaths /\ ~fnArgs.unreadable) =>
        LET hits == SelectSeq(Hits(temp.lines, 1, 1),
                              LAMBDA h : fnArgs.path = "scripts/build.js" \/ ~temp.lines[h[1]].console)
        IN [k \in 1..Len(fnOut.issues) |-> <<fnOut.issues[k].line, fnOut.issues[k].message>>]
             = [k \in 1..Len(hits) |->
                  <<hits[k][1], StubDescriptions[hits[k][2]] \o ": " \o temp.lines[hits[k][1]].text>>]

----------------------------------------------------------------------------
(* SpecHook: hooks-ts-check TsCheckHooks *)

\* TsCheckHooks(config): the fields handle_tool_post reads
TsCheckHooks(on, file_patterns, report_level, auto_inject) ==
    [enabled |-> on, file_patterns |-> file_patterns,
     report_level |-> report_level, auto_inject |-> auto_inject]

\* the default of file_patterns
DefaultPatterns ==
    << <<"*", ".", "t", "s">>, <<"*", ".", "t", "s", "x">>, <<"*", ".", "j", "s">>,
       <<"*", ".", "j", "s", "x">>, <<"*", ".", "m", "t", "s">>, <<"*", ".", "m", "j", "s">>,
       <<"*", ".", "c", "t", "s">>, <<"*", ".", "c", "j", "s">> >>

\* fnmatch.fnmatch(name, pattern) for the patterns in use: "*" followed by
\* literal characters, or literal characters only
Fnmatch(name, pattern) ==
    IF pattern # <<>> /\ Head(pattern) = "*" THEN EndsWith(name, Tail(pattern)) ELSE name = pattern

\* _matches_patterns(file_path)
_matches_patternsAnySuffix(self, file_path) ==
    \/ Suffix(file_path) # <<>>
    \/ \E k \in 1..Len(self.file_patterns) :
         \/ Fnmatch(NameChars(Spell(file_path)), self.file_patterns[k])
         \/ Fnmatch(Spell(file_path), self.file_patterns[k])
_matches_patterns(self, file_path) ==
    \/ Suffix(file_path) \in ALL_EXTENSIONS
    \/ \E k \in 1..Len(self.file_patterns) :
         \/ Fnmatch(NameChars(Spell(file_path)), self.file_patterns[k])
         \/ Fnmatch(Spell(file_path), self.file_patterns[k])

\* level_order.get(level, default)
LevelOrder(level, default) ==
    CASE level = "error" -> 0 [] level = "warning" -> 1 [] level = "info" -> 2 [] OTHER -> default

\* _filter_by_level(issues)
_filter_by_levelAbove(self, issues) ==
    SelectSeq(issues, LAMBDA i : LevelOrder(i.severity, 0) >= LevelOrder(self.report_level, 1))
_filter_by_levelBelow(self, issues) ==
    SelectSeq(issues, LAMBDA i : LevelOrder(i.severity, 0) < LevelOrder(self.report_level, 1))
_filter_by_level(self, issues) ==
    SelectSeq(issues, LAMBDA i : LevelOrder(i.severity, 0) <= LevelOrder(self.report_level, 1))

\* CheckResult.to_hook_output(); issues_text is kept as its lines, which the
\* code joins with "\n"
to_hook_output(self) ==
    [summary |-> "Found " \o ToString(Len(self.issues)) \o " issue(s)",
     issues_text |-> [k \in 1..Len(self.issues) |->
                        "  " \o self.issues[k].file \o ":" \o ToString(self.issues[k].line) \o ":"
                             \o ToString(self.issues[k].column) \o ": [" \o self.issues[k].code \o "] "
                             \o self.issues[k].message],
     has_errors |-> ~success(self)]

write_tools == {"write_file", "edit_file", "Write", "Edit", "MultiEdit"}

\* What handle_tool_post gives: the HookResult (a field not passed is "", the
\* context injection is kept as its lines), with the guards it tested, the
\* path lists it handed to check_files, the fix of those calls (never passed:
\* the default, False) and the result check_files returned
HookResult(action, context, user_message, level, guards, checked, returned) ==
    [done |-> TRUE, action |-> action, context_injection |-> context,
     user_message |-> user_message, user_message_level |-> level,
     guards |-> guards, checked |-> checked, fix |-> [k \in 1..Len(checked) |-> FALSE],
     returned |-> returned]

Guards == <<"enabled", "tool_name", "file_path", "patterns", "exists">>
Stopped(n) == HookResult("continue", <<>>, "", "", SubSeq(Guards, 1, n), <<>>, EmptyResult)

\* handle_tool_post(event, data); on_disk = Path(file_path).exists(),
\* returned = what check_files gives for the path
handle_tool_post(self, data, on_disk, returned) ==
    IF ~self.enabled THEN Stopped(1)
    ELSE IF Get(data, "tool_name", JStr("")).s \notin write_tools THEN Stopped(2)
    ELSE LET tool_input == Get(data, "tool_input", JObj(NoFields))
             file_path  == Get(tool_input, "file_path", Get(tool_input, "path", JStr(""))).s
         IN
         IF file_path = "" THEN Stopped(3)
         ELSE IF ~_matches_patterns(self, file_path) THEN Stopped(4)
         ELSE IF ~on_disk THEN Stopped(5)
         ELSE LET result == [returned EXCEPT !.issues = _filter_by_level(self, returned.issues)]
                  hook_output == to_hook_output(result)
                  level == IF success(result) THEN "warning" ELSE "error"
              IN
              IF clean(result)
                  THEN HookResult("continue", <<>>, "", "", Guards, <<<<file_path>>>>, returned)
              ELSE IF self.auto_inject
                  THEN HookResult("inject_context",
                                  <<"TS/JS check found issues in " \o file_path \o ":">>
                                      \o hook_output.issues_text,
                                  "Found " \o ToString(Len(result.issues)) \o " issue(s) in " \o file_path,
                                  level, Guards, <<<<file_path>>>>, returned)
              ELSE HookResult("continue", <<>>, hook_output.summary, level,
                              Guards, <<<<file_path>>>>, returned)

\* the hook configurations, the events and the results of the check
HookConfigs ==
    { TsCheckHooks(e, fp, rl, ai) :
        e \in BOOLEAN, fp \in {DefaultPatterns, << <<"M", "a", "k", "e", "f", "i", "l", "e">> >>},
        rl \in {"error", "warning", "info", "verbose"}, ai \in BOOLEAN }
ToolInputs ==
    { JObj(NoFields),
      JObj([file_path |-> JStr("a.ts")]),
      JObj([path |-> JStr("b.js")]),
      JObj([file_path |-> JStr(""), path |-> JStr("a.ts")]),
      JObj([file_path |-> JStr("a.ts"), path |-> JStr("b.js")]),
      JObj([file_path |-> JStr("notes.txt")]),
      JObj([file_path |-> JStr("Makefile")]) }
HookEvents ==
    { JObj([tool_name |-> JStr(t), tool_input |-> ti]) :
        t \in {"Write", "edit_file", "MultiEdit", "Read"}, ti \in ToolInputs }
    \cup { JObj([tool_input |-> ti]) : ti \in ToolInputs }
HookChecks == {CheckResult(is, 1, <<"eslint">>) : is \in SeqsUpTo(PoolIssues, MaxHookIssues)}

InitHook ==
    /\ \E self \in HookConfigs, data \in HookEvents, on_disk \in BOOLEAN :
         fnArgs = [self |-> self, data |-> data, on_disk |-> on_disk]
    /\ fnOut = NotYet
    /\ pR = EmptyResult /\ pOut = NotYet
    /\ mA = EmptyResult /\ mB = EmptyResult /\ mC = EmptyResult /\ mOut = NotYet
    /\ CallIdle

handle_tool_post_call ==
    /\ fnOut = NotYet
    /\ \E returned \in HookChecks :
         fnOut' = handle_tool_post(fnArgs.self, fnArgs.data, fnArgs.on_disk, returned)
    /\ UNCHANGED <<fnArgs, predVars, mergeVars, callVars>>

SpecHook == InitHook /\ [][handle_tool_post_call]_vars

\* the paths of ToolInputs that the extensions or the patterns accept
Accepted(file_patterns) ==
    {"a.ts", "b.js"} \cup (IF file_patterns = DefaultPatterns THEN {} ELSE {"Makefile"})

\* the path an event names: file_path, or path when no file_path is given
Named(data) ==
    LET ti == data.f.tool_input IN
    IF "file_path" \in DOMAIN ti.f THEN ti.f.file_path.s
    ELSE IF "path" \in DOMAIN ti.f THEN ti.f.path.s ELSE ""

\* C18: handle_tool_post tests, in this order, that the hook is enabled, that
\* tool_name is one of write_file, edit_file, Write, Edit, MultiEdit, that the
\* tool input names a non-empty file_path (or path), that the path matches the
\* extensions or the patterns, and that the file exists; it stops at the first
\* guard that fails, with action continue, no message and no check; when all
\* hold it checks exactly that one path, once.
C18_HookGuard ==
    fnOut.done =>
        LET data == fnArgs.data
            tool == IF "tool_name" \in DOMAIN data.f THEN data.f.tool_name.s ELSE ""
            pass == <<fnArgs.self.enabled,
                      tool \in {"write_file", "edit_file", "Write", "Edit", "MultiEdit"},
                      Named(data) # "",
                      Named(data) \in Accepted(fnArgs.self.file_patterns),
                      fnArgs.on_disk>>
            n    == Len(fnOut.guards)
        IN
        /\ n \in 1..5
        /\ fnOut.guards = SubSeq(<<"enabled", "tool_name", "file_path", "patterns", "exists">>, 1, n)
        /\ \A k \in 1..(n - 1) : pass[k]
        /\ IF \A k \in 1..5 : pass[k]
              THEN fnOut.checked = << <<Named(data)>> >>
              ELSE /\ ~pass[n]
                   /\ fnOut.checked = <<>>
                   /\ fnOut.action = "continue"
                   /\ fnOut.user_message = ""
                   /\ fnOut.context_injection = <<>>

\* an Edit event that gives only `path`, for a file on disk, had that one path
\* checked
C18_Witness ==
    /\ fnOut.done
    /\ fnArgs.data = JObj([tool_name |-> JStr("MultiEdit"), tool_input |-> JObj([path |-> JStr("b.js")])])
    /\ fnOut.checked = << <<"b.js">> >>

\* the issues of the returned result that the report level keeps
Remaining ==
    SelectSeq(fnOut.returned.issues,
              LAMBDA i : CASE fnArgs.self.report_level = "error" -> i.severity = ERROR
                           [] fnArgs.self.report_level = "info"  -> TRUE
                           [] OTHER -> i.severity \in {ERROR, WARNING})

\* C19: after a check has run: when the report level leaves no issue, action
\* continue and no message; otherwise the message level is error exactly when
\* some remaining issue is an error, else warning, and with auto_inject the
\* action is inject_context and the injected text has, after its heading, one
\* line per remaining issue, file:line:column: [code] message, while without
\* auto_inject the action is continue with the summary only.
C19_HookOutcome ==
    (fnOut.done /\ fnOut.checked # <<>>) =>
        IF Remaining = <<>>
            THEN /\ fnOut.action = "continue"
                 /\ fnOut.user_message = ""
                 /\ fnOut.context_injection = <<>>
        ELSE /\ fnOut.user_message_level =
                    (IF \E k \in 1..Len(Remaining) : Remaining[k].severity = ERROR
                        THEN "error" ELSE "warning")
             /\ IF fnArgs.self.auto_inject
                   THEN /\ fnOut.action = "inject_context"
                        /\ Len(fnOut.context_injection) = 1 + Len(Remaining)
                        /\ \A k \in 1..Len(Remaining) :
                             fnOut.context_injection[k + 1] =
                                 "  " \o Remaining[k].file \o ":" \o ToString(Remaining[k].line)
                                      \o ":" \o ToString(Remaining[k].column)
                                      \o ": [" \o Remaining[k].code \o "] " \o Remaining[k].message
                   ELSE /\ fnOut.action = "continue"
                        /\ fnOut.user_message = "Found " \o ToString(Len(Remaining)) \o " issue(s)"
                        /\ fnOut.context_injection = <<>>

\* the check returned a warning and a note, the report level kept the warning
\* only, and the hook injected the heading and one line at level warning
C19_Witness ==
    /\ fnOut.done /\ fnOut.action = "inject_context"
    /\ Len(fnOut.returned.issues) = 2
    /\ fnOut.context_injection =
           <<"TS/JS check found issues in a.ts:", "  a.ts:1:1: [FORMAT] File would be reformatted">>
    /\ fnOut.user_message_level = "warning"

----------------------------------------------------------------------------
(* SpecTool: tool-ts-check TsCheckTool *)

\* Issue.to_dict(); suggestion, end_line and end_column are never set
to_dict(self) ==
    [file |-> self.file, line |-> self.line, column |-> self.column, code |-> self.code,
     message |-> self.message, severity |-> self.severity, source |-> self.source,
     suggestion |-> JNull, end_line |-> JNull, end_column |-> JNull]

\* ", ".join(parts)
RECURSIVE JoinComma(_)
JoinComma(parts) ==
    IF parts = <<>> THEN ""
    ELSE IF Len(parts) = 1 THEN parts[1]
    ELSE parts[1] \o ", " \o JoinComma(Tail(parts))

\* CheckResult.to_tool_output()
to_tool_output(self) ==
    LET errors   == SelectSeq(self.issues, LAMBDA i : i.severity = ERROR)
        warnings == SelectSeq(self.issues, LAMBDA i : i.severity = WARNING)
        infos    == SelectSeq(self.issues, LAMBDA i : i.severity = INFO)
        summary_parts ==
            (IF errors # <<>> THEN <<ToString(Len(errors)) \o " error(s)">> ELSE <<>>)
            \o (IF warnings # <<>> THEN <<ToString(Len(warnings)) \o " warning(s)">> ELSE <<>>)
            \o (IF infos # <<>> THEN <<ToString(Len(infos)) \o " info(s)">> ELSE <<>>)
    IN
    [success |-> success(self),
     clean |-> clean(self),
     summary |-> IF summary_parts = <<>>
                    THEN "All checks passed. " \o ToString(self.files_checked) \o " file(s) checked."
                    ELSE "Found " \o JoinComma(summary_parts) \o " in "
                             \o ToString(self.files_checked) \o " file(s).",
     files_checked |-> self.files_checked,
     checks_run |-> self.checks_run,
     issues |-> [k \in 1..Len(self.issues) |-> to_dict(self.issues[k])],
     error_count |-> Len(errors),
     warning_count |-> Len(warnings),
     info_count |-> Len(infos)]

\* `x in checks` for a list of strings
InList(x, checks) == \E k \in 1..Len(checks.items) : checks.items[k] = JStr(x)

\* What execute gives: the ToolResult, with the one call it made: the entry
\* point, its content or its paths, fix, and the config (<<>> for None)
ToolResult(call, text, ps, fx, cfg, result) ==
    [done |-> TRUE, call |-> call, content |-> text, paths |-> ps, fix |-> fx,
     config |-> cfg, returned |-> result,
     success |-> success(result), output |-> to_tool_output(result)]

\* TsCheckTool.execute(input_data); returned = what the entry point called
\* gives
execute(input_data, returned) ==
    LET in_paths   == Get(input_data, "paths", JNull)
        in_content == Get(input_data, "content", JNull)
        in_fix     == Get(input_data, "fix", JBool(FALSE))
        in_checks  == Get(input_data, "checks", JNull)
        cfg  == IF Truthy(in_checks)
                      THEN <<CheckConfig(InList("eslint", in_checks), InList("prettier", in_checks),
                                         InList("tsc", in_checks), InList("stubs", in_checks))>>
                      ELSE <<>>
    IN
    IF Truthy(in_content) THEN ToolResult("check_content", in_content.s, <<>>, FALSE, cfg, returned)
    ELSE IF Truthy(in_paths)
        THEN ToolResult("check_files", "", [k \in 1..Len(in_paths.items) |-> in_paths.items[k].s],
                        in_fix.b, cfg, returned)
    ELSE ToolResult("check_files", "", <<".">>, in_fix.b, cfg, returned)

\* the inputs of execute, as the input schema admits them: each key absent or
\* present
Keyed(key, values) == {NoFields} \cup {key :> v : v \in values}
ToolInputData ==
    { JObj(c @@ p @@ f @@ k) :
        c \in Keyed("content", {JStr(""), JStr("const a = 1;")}),
        p \in Keyed("paths", {JArr(<<>>), JArr(<<JStr("a.ts")>>), JArr(<<JStr("src"), JStr("b.js")>>)}),
        f \in Keyed("fix", {JBool(FALSE), JBool(TRUE)}),
        k \in Keyed("checks", {JArr(<<>>), JArr(<<JStr("eslint")>>), JArr(<<JStr("tsc"), JStr("stubs")>>)}) }

InitTool ==
    /\ \E input_data \in ToolInputData : fnArgs = [input_data |-> input_data]
    /\ fnOut = NotYet
    /\ pR = EmptyResult /\ pOut = NotYet
    /\ mA = EmptyResult /\ mB = EmptyResult /\ mC = EmptyResult /\ mOut = NotYet
    /\ CallIdle

execute_call ==
    /\ fnOut = NotYet
    /\ \E returned \in HookChecks : fnOut' = execute(fnArgs.input_data, returned)
    /\ UNCHANGED <<fnArgs, predVars, mergeVars, callVars>>

SpecTool == InitTool /\ [][execute_call]_vars

\* the value an input gives for a key, JNull when the key is absent
Given(key) == IF key \in DOMAIN fnArgs.input_data.f THEN fnArgs.input_data.f[key] ELSE JNull

\* C20: execute checks the inline content when content is given, with paths
\* and fix ignored; otherwise the given paths; otherwise the current
\* directory; it makes one call, and ToolResult.success is the success of the
\* CheckResult that call returned.
C20_ToolDispatch ==
    fnOut.done =>
        /\ fnOut.success = success(fnOut.returned)
        /\ IF Given("content") # JNull
              THEN /\ fnOut.call = "check_content"
                   /\ fnOut.content = Given("content").s
                   /\ fnOut.paths = <<>> /\ ~fnOut.fix
           ELSE IF Truthy(Given("paths"))
              THEN /\ fnOut.call = "check_files"
                   /\ fnOut.paths = [k \in 1..Len(Given("paths").items) |-> Given("paths").items[k].s]
           ELSE fnOut.call = "check_files" /\ fnOut.paths = <<".">>

\* the same dispatch holds in every call whose content, when given, is not the
\* empty string
ToolDispatchNonEmpty == Given("content") # JStr("") => C20_ToolDispatch

----------------------------------------------------------------------------
(* SpecExclude: checker.py _should_exclude, as the directory walk of        *)
(* _run_stub_check applies it to a file it found                            *)

\* the files a walk finds, and the values of exclude_patterns
WalkFiles ==
    {"src/a.ts", "lib/util.ts", "index.js", "types.d.ts", "src/app.min.js", "node_modules/x.js",
     "dist/out.js", "build/out.js", ".next/p.js", "coverage/r.js", "src/rebuild.ts"}
ExcludeLists ==
    { DefaultExcludes,
      << <<"*", ".", "j", "s">> >>,
      << <<"u", "t", "i", "l">> >>,
      << <<"s", "r", "c", "/", "*", "*">> >>,
      <<  >>,
      << <<"*", ".", "m", "i", "n", ".", "j", "s">> >>,
      << <<"*", ".", "t", "s">>, <<"o", "u", "t">> >>,
      << <<"*", ".", "d", ".", "t", "s">> >> }

InitExclude ==
    /\ \E ps \in ExcludeLists, f \in WalkFiles : fnArgs = [exclude_patterns |-> ps, file |-> f]
    /\ fnOut = NotYet
    /\ pR = EmptyResult /\ pOut = NotYet
    /\ mA = EmptyResult /\ mB = EmptyResult /\ mC = EmptyResult /\ mOut = NotYet
    /\ CallIdle

\* one turn of the walk's loop: the file is skipped or handed to the scan
walk_file ==
    /\ fnOut = NotYet
    /\ LET cfg == [CheckConfig(TRUE, TRUE, TRUE, TRUE) EXCEPT !.exclude_patterns = fnArgs.exclude_patterns] IN
       fnOut' = [done |-> TRUE,
                 excluded |-> _should_exclude(cfg, fnArgs.file),
                 scanned |-> StubDirFiles(cfg, <<fnArgs.file>>, 1)]
    /\ UNCHANGED <<fnArgs, predVars, mergeVars, callVars>>

SpecExclude == InitExclude /\ [][walk_file]_vars

\* the three rules as the claim words them, on the characters of the path
RuleMatches(pattern, cs) ==
    IF EndsWith(pattern, <<"/", "*", "*">>) THEN Contains(cs, SubSeq(pattern, 1, Len(pattern) - 3))
    ELSE IF StartsWith(pattern, <<"*", ".">>) THEN EndsWith(cs, Tail(pattern))
    ELSE Contains(cs, pattern)

\* C23: _should_exclude(path) is true exactly when some configured pattern
\* matches: `D/**` when D occurs in the path, `*.E` when the path ends with
\* .E, any other pattern when it is a substring of the path; an excluded file
\* is not scanned.  With the default patterns app.min.js is excluded, and so
\* is every file under node_modules, dist, build, .next or coverage.
C23_ExclusionMatching ==
    fnOut.done =>
        /\ fnOut.excluded <=>
              \E k \in 1..Len(fnArgs.exclude_patterns) :
                  RuleMatches(fnArgs.exclude_patterns[k], Spell(fnArgs.file))
        /\ fnOut.scanned = IF fnOut.excluded THEN <<>> ELSE <<fnArgs.file>>
        /\ (fnArgs.exclude_patterns = DefaultExcludes
              /\ fnArgs.file \in {"src/app.min.js", "node_modules/x.js", "dist/out.js",
                                  "build/out.js", ".next/p.js", "coverage/r.js"})
             => fnOut.excluded

\* what holds instead for a `*.E` pattern: it matches when Path.suffix, the
\* part of the name from its last dot on, equals .E
ExclusionAsCoded ==
    fnOut.done =>
        (fnOut.excluded <=>
            \E k \in 1..Len(fnArgs.exclude_patterns) :
                LET pattern == fnArgs.exclude_patterns[k] IN
                IF ~EndsWith(pattern, <<"/", "*", "*">>) /\ StartsWith(pattern, <<"*", ".">>)
                    THEN /\ EndsWith(Spell(fnArgs.file), Tail(pattern))
                         /\ \A i \in 3..Len(pattern) : pattern[i] # "."
                    ELSE RuleMatches(pattern, Spell(fnArgs.file)))

\* the candidate files under the checked paths: a file argument with a
\* recognized extension, and the recognized files below a directory argument
\* that no exclude pattern matches
RECURSIVE Candidates(_, _)
Candidates(ps, patterns) ==
    IF ps = <<>> THEN 0
    ELSE (IF is_file(Head(ps))
             THEN (IF Suffix(Head(ps)) \in ALL_EXTENSIONS THEN 1 ELSE 0)
             ELSE Cardinality({k \in 1..Len(DirListing(Head(ps))) :
                                 /\ Suffix(DirListing(Head(ps))[k]) \in ALL_EXTENSIONS
                                 /\ ~ \E j \in 1..Len(patterns) :
                                        RuleMatches(patterns[j], Spell(DirListing(Head(ps))[k]))}))
         + Candidates(Tail(ps), patterns)

\* C24: files_checked of the result check_files returns is the number of
\* candidate files under the checked paths, files matched by the exclude
\* patterns not counted, whichever checks are enabled and whatever they report.
C24_FilesChecked ==
    (entry = "check_files" /\ ret.done) =>
        ret.result.files_checked = Candidates(paths, config.exclude_patterns)

\* what holds instead: the excluded files are counted too
FilesCheckedAsCoded ==
    (entry = "check_files" /\ ret.done) => ret.result.files_checked = Candidates(paths, <<>>)

----------------------------------------------------------------------------
(* SpecEslint: checker.py _run_eslint on well-formed output: a list of file *)
(* results, each with its filePath and its list of messages                 *)

\* the messages: the severity 2, 1, absent, null, or a level the linter does
\* not define; the rule id a name, null, empty or absent
LintMessages ==
    { Msg([ruleId |-> JStr("semi"), severity |-> JNum(2), message |-> JStr("Missing semicolon."),
           line |-> JNum(3), column |-> JNum(7)]),
      Msg([ruleId |-> JNull, severity |-> JNum(1), message |-> JStr("Parsing error"), line |-> JNum(1)]),
      Msg([ruleId |-> JStr(""), message |-> JStr("no level"), line |-> JNum(2), column |-> JNum(1)]),
      Msg([severity |-> JNum(3), message |-> JStr("level 3")]),
      Msg([ruleId |-> JStr("no-var"), severity |-> JStr("error"), message |-> JStr("level as text")]),
      Msg([ruleId |-> JStr("eqeqeq"), severity |-> JNull, message |-> JStr("null level")]),
      Msg([ruleId |-> JStr("no-console"), severity |-> JNum(0), column |-> JNum(5)]) }

\* the output for two files: the first `split` messages are those of a.ts, the
\* others those of b.js
LintOutput(msgs, split) ==
    Json(JArr(<<FileResult("a.ts", SubSeq(msgs, 1, split)),
                FileResult("b.js", SubSeq(msgs, split + 1, Len(msgs)))>>))

InitEslint ==
    /\ \E msgs \in SeqsUpTo(LintMessages, MaxEslintMsgs) : \E split \in 0..Len(msgs) :
         fnArgs = [msgs |-> msgs, split |-> split]
    /\ fnOut = NotYet
    /\ pR = EmptyResult /\ pOut = NotYet
    /\ mA = EmptyResult /\ mB = EmptyResult /\ mC = EmptyResult /\ mOut = NotYet
    /\ CallIdle

\* _run_eslint(["a.ts", "b.js"]) with the linter found and its process ended
run_eslint_call ==
    /\ fnOut = NotYet
    /\ \E returncode \in {0, 1}, fx \in BOOLEAN, hasCfg \in BOOLEAN :
         fnOut' = [done |-> TRUE,
                   r |-> _run_eslint(<<"a.ts", "b.js">>, fx, Exe("global", "eslint"), hasCfg,
                                     Exited(returncode, LintOutput(fnArgs.msgs, fnArgs.split)))]
    /\ UNCHANGED <<fnArgs, predVars, mergeVars, callVars>>

SpecEslint == InitEslint /\ [][run_eslint_call]_vars

\* the field of a message, or the default when the message has none
Field(msg, key, default) == IF key \in DOMAIN msg.f THEN msg.f[key] ELSE default

\* C25: for well-formed output the linter adapter gives one issue per
\* message, in the output's order (by file, then by message), none dropped;
\* the severity is error exactly for level 2, warning for level 1 and for a
\* missing or unrecognized level; the code is the rule id, or "eslint" when
\* the rule id is absent or empty.
C25_LinterNormalization ==
    fnOut.done =>
        /\ fnOut.r.exc = ""
        /\ Len(fnOut.r.result.issues) = Len(fnArgs.msgs)
        /\ \A k \in 1..Len(fnArgs.msgs) :
             LET msg   == fnArgs.msgs[k]
                 issue == fnOut.r.result.issues[k]
                 rule  == Field(msg, "ruleId", JNull)
             IN
             /\ issue.file = (IF k <= fnArgs.split THEN "a.ts" ELSE "b.js")
             /\ issue.severity = (IF Field(msg, "severity", JNull) = JNum(2) THEN ERROR ELSE WARNING)
             /\ issue.code = (IF rule \in {JNull, JStr("")} THEN "eslint" ELSE rule.s)
             /\ issue.message = Field(msg, "message", JStr("")).s
             /\ issue.line = Field(msg, "line", JNum(0)).n
             /\ issue.column = Field(msg, "column", JNum(0)).n
             /\ issue.source = "eslint"

\* a message of level 2 for a.ts and one of level 3 without rule id for b.js
\* gave an error and then a warning with the code eslint
C25_Witness ==
    /\ fnOut.done /\ Len(fnArgs.msgs) = 2 /\ fnArgs.split = 1
    /\ fnArgs.msgs[2] = Msg([severity |-> JNum(3), message |-> JStr("level 3")])
    /\ fnOut.r.result.issues[1].severity = ERROR
    /\ fnOut.r.result.issues[2] = Issue("b.js", 0, 0, "eslint", "level 3", WARNING, "eslint")

\* the launches of the log
Launches == {k \in 1..Len(log) : log[k].ev = "launch"}

\* C26: a modifying flag goes to an external tool only when fix is true, and
\* then only --fix to the linter and --write to the formatter; the type
\* checker is launched with --noEmit and without either flag, the stub scan
\* launches nothing, and check_content never runs in fix mode.
C26_FixConfined ==
    /\ entry = "check_content" => ~fix
    /\ \A k \in Launches :
         LET args == Range(log[k].args) IN
         /\ log[k].name \in {"eslint", "prettier", "tsc"}
         /\ "--fix" \in args <=> (fix /\ log[k].name = "eslint")
         /\ "--write" \in args <=> (fix /\ log[k].name = "prettier")
         /\ log[k].name = "prettier" => ("--check" \in args <=> ~fix)
         /\ log[k].name = "tsc" => "--noEmit" \in args

\* a check_files call with fix launched the three tools: the linter with
\* --fix, the formatter with --write, the type checker with neither
C26_Witness ==
    /\ entry = "check_files" /\ fix /\ pc = "done"
    /\ \E i, j, k \in Launches :
         /\ log[i].name = "eslint" /\ "--fix" \in Range(log[i].args)
         /\ log[j].name = "prettier" /\ "--write" \in Range(log[j].args)
         /\ log[k].name = "tsc" /\ Range(log[k].args) \cap {"--fix", "--write"} = {}

\* the issues of a sequence that have one of the severities
Only(issues, severities) == SelectSeq(issues, LAMBDA i : i.severity \in severities)

\* C27: the hook's report-level filter removes no error, for every
\* report_level: at level error only the errors remain, at level warning (and
\* at an unrecognized level) the errors and the warnings, at level info
\* everything; so success after filtering is success before it, and the level
\* of the hook's message is error exactly when the unfiltered result has an
\* error.
C27_FilterKeepsErrors ==
    (fnOut.done /\ fnOut.checked # <<>>) =>
        LET before == fnOut.returned.issues
            after  == _filter_by_level(fnArgs.self, before)
            level  == fnArgs.self.report_level
        IN
        /\ Only(after, {ERROR}) = Only(before, {ERROR})
        /\ after = CASE level = "error" -> Only(before, {ERROR})
                     [] level = "info"  -> before
                     [] OTHER           -> Only(before, {ERROR, WARNING})
        /\ success([fnOut.returned EXCEPT !.issues = after]) = success(fnOut.returned)
        /\ after # <<>> =>
             /\ fnOut.user_message_level = (IF success(fnOut.returned) THEN "warning" ELSE "error")
             /\ fnArgs.self.auto_inject => Len(fnOut.context_injection) = 1 + Len(after)

\* at report level error a result with a warning and an error left the error
\* alone: the hook injected its one line at level error
C27_Witness ==
    /\ fnOut.done /\ fnArgs.self.report_level = "error"
    /\ Len(fnOut.returned.issues) = 2
    /\ fnOut.returned.issues[1].severity = WARNING /\ fnOut.returned.issues[2].severity = ERROR
    /\ fnOut.context_injection =
           <<"TS/JS check found issues in a.ts:", "  a.ts:3:7: [no-unused-vars] unused">>
    /\ fnOut.user_message_level = "error"

\* a process of the call ran out of time
SomeTimeout == \E k \in 1..Len(log) : log[k].ev = "ended" /\ log[k].args = <<"TimeoutExpired">>

\* C28: every issue of a returned result is an error or a warning, never a
\* note; an error is a linter message of level 2, a type-checker line of kind
\* error or a TIMEOUT issue, while stub findings, formatter findings and
\* TOOL-NOT-FOUND issues are warnings; so a call with only the formatter and
\* the stub scan enabled, and no timeout, has success true.
C28_Severities ==
    ret.done =>
        /\ \A k \in 1..Len(ret.result.issues) :
             LET i == ret.result.issues[k] IN
             /\ i.severity \in {ERROR, WARNING}
             /\ i.severity = ERROR =>
                  \/ i.code = "TIMEOUT"
                  \/ i.source = "eslint" /\ i.code = "no-unused-vars"
                  \/ i.source = "tsc" /\ i.code = "TS2322"
             /\ (i.code \in {"STUB", "FORMAT", "TOOL-NOT-FOUND"} \/ i.source = "stub-check")
                  => i.severity = WARNING
             /\ (i.source = "eslint" /\ i.code = "eslint") => i.severity = WARNING
             /\ (i.source = "tsc" /\ i.code = "TS6133") => i.severity = WARNING
        /\ (~config.enable_eslint /\ ~config.enable_tsc /\ ~SomeTimeout) => success(ret.result)

\* a call with only the formatter and the stub scan enabled returned a
\* formatter finding and a stub finding, and succeeded
C28_Witness ==
    /\ ret.done /\ ~config.enable_eslint /\ ~config.enable_tsc
    /\ \E j, k \in 1..Len(ret.result.issues) :
         ret.result.issues[j].code = "FORMAT" /\ ret.result.issues[k].code = "STUB"
    /\ success(ret.result)

----------------------------------------------------------------------------
(* SpecChecks: the `checks` selection, from TsCheckTool.execute and from    *)
(* TsCheckHooks.__init__ to the configuration the checker runs with         *)

\* TsCheckHooks.__init__, lines 45-53: config.get("checks", [the four names])
\* and the CheckConfig built from it
HookCheckConfigEmptyAsAll(hook_config) ==
    LET all4 == JArr(<<JStr("eslint"), JStr("prettier"), JStr("tsc"), JStr("stubs")>>)
        given == Get(hook_config, "checks", all4)
        in_checks == IF Truthy(given) THEN given ELSE all4
    IN CheckConfig(InList("eslint", in_checks), InList("prettier", in_checks),
                   InList("tsc", in_checks), InList("stubs", in_checks))
HookCheckConfig(hook_config) ==
    LET in_checks == Get(hook_config, "checks",
                         JArr(<<JStr("eslint"), JStr("prettier"), JStr("tsc"), JStr("stubs")>>))
    IN CheckConfig(InList("eslint", in_checks), InList("prettier", in_checks),
                   InList("tsc", in_checks), InList("stubs", in_checks))

\* TypeScriptChecker.__init__: self.config = config or load_config(); given =
\* <<>> for None, loaded = what load_config() returns
CheckerConfig(given, loaded) == IF given = <<>> THEN loaded ELSE given[1]

\* the sub-check an issue comes from, by the name of its toggle
ToggleOf(issue) ==
    CASE issue.source = "eslint" -> "enable_eslint"
      [] issue.source = "prettier" -> "enable_prettier"
      [] issue.source = "tsc" -> "enable_tsc"
      [] OTHER -> "enable_stub_check"

\* the results check_files can return under a configuration: the issues of
\* enabled sub-checks only
ResultsUnder(cfg) ==
    { r \in HookChecks : \A k \in 1..Len(r.issues) : cfg[ToggleOf(r.issues[k])] }

\* the selections, and the configurations a manifest can give
Selections ==
    Keyed("checks", { JArr(<<>>), JArr(<<JStr("eslint")>>), JArr(<<JStr("tsc"), JStr("stubs")>>),
                      JArr(<<JStr("prettier"), JStr("stub-check")>>) })
Loaded == {CheckConfig(TRUE, TRUE, TRUE, TRUE), CheckConfig(FALSE, TRUE, TRUE, TRUE),
           CheckConfig(TRUE, FALSE, FALSE, TRUE)}

InitChecks ==
    /\ \E sel \in Selections, loaded \in Loaded, surface \in {"tool", "hook"}, ai \in BOOLEAN :
         fnArgs = [selection |-> sel, loaded |-> loaded, surface |-> surface, auto_inject |-> ai]
    /\ fnOut = NotYet
    /\ pR = EmptyResult /\ pOut = NotYet
    /\ mA = EmptyResult /\ mB = EmptyResult /\ mC = EmptyResult /\ mOut = NotYet
    /\ CallIdle

\* what a call of a surface gave: the configuration the checker ran with, the
\* result it returned, and what the surface reports (the tool: the number of
\* issues of its output)
Surfaced(cfg, returned, action, message, n) ==
    [done |-> TRUE, cfg |-> cfg, returned |-> returned, action |-> action,
     user_message |-> message, reported |-> n]

\* execute({"paths": ["a.ts"], "checks": ...})
tool_call ==
    /\ fnOut = NotYet /\ fnArgs.surface = "tool"
    /\ LET input_data == JObj(fnArgs.selection @@ ("paths" :> JArr(<<JStr("a.ts")>>)))
           given == execute(input_data, EmptyResult).config
           cfg == CheckerConfig(given, fnArgs.loaded)
       IN \E returned \in ResultsUnder(cfg) :
            LET out == execute(input_data, returned) IN
            fnOut' = Surfaced(cfg, returned, "", "", Len(out.output.issues))
    /\ UNCHANGED <<fnArgs, predVars, mergeVars, callVars>>

\* TsCheckHooks({"checks": ..., "auto_inject": ...}), then handle_tool_post
\* for a written a.ts
hook_call ==
    /\ fnOut = NotYet /\ fnArgs.surface = "hook"
    /\ LET cfg == CheckerConfig(<<HookCheckConfig(JObj(fnArgs.selection))>>, fnArgs.loaded)
           self == TsCheckHooks(TRUE, DefaultPatterns, "warning", fnArgs.auto_inject)
           data == JObj([tool_name |-> JStr("Write"), tool_input |-> JObj([file_path |-> JStr("a.ts")])])
       IN \E returned \in ResultsUnder(cfg) :
            LET out == handle_tool_post(self, data, TRUE, returned) IN
            fnOut' = Surfaced(cfg, returned, out.action, out.user_message,
                              IF out.context_injection = <<>> THEN 0
                              ELSE Len(out.context_injection) - 1)
    /\ UNCHANGED <<fnArgs, predVars, mergeVars, callVars>>

SpecChecks == InitChecks /\ [][tool_call \/ hook_call]_vars

\* the checks selection of a call
NoSelection == "checks" \notin DOMAIN fnArgs.selection
Selected(name) ==
    /\ ~NoSelection
    /\ \E k \in 1..Len(fnArgs.selection["checks"].items) :
         fnArgs.selection["checks"].items[k] = JStr(name)
ExactlySelected ==
    CheckConfig(Selected("eslint"), Selected("prettier"), Selected("tsc"), Selected("stubs"))

\* C29: in the tool an absent or empty checks list overrides nothing, the
\* checker running with the manifest's or default configuration, and a
\* non-empty list enables exactly the listed checks whatever the manifest; in
\* the hook an empty checks list disables all four checks and the hook then
\* reports nothing.
C29_ChecksSelection ==
    fnOut.done =>
        IF fnArgs.surface = "tool"
            THEN fnOut.cfg = (IF NoSelection \/ fnArgs.selection["checks"] = JArr(<<>>)
                                 THEN fnArgs.loaded ELSE ExactlySelected)
            ELSE /\ fnOut.cfg = (IF NoSelection THEN CheckConfig(TRUE, TRUE, TRUE, TRUE)
                                 ELSE ExactlySelected)
                 /\ (~NoSelection /\ fnArgs.selection["checks"] = JArr(<<>>)) =>
                       /\ fnOut.cfg = CheckConfig(FALSE, FALSE, FALSE, FALSE)
                       /\ fnOut.returned.issues = <<>>
                       /\ fnOut.action = "continue" /\ fnOut.user_message = "" /\ fnOut.reported = 0

\* a hook built with an empty checks list ran its check with all four
\* sub-checks disabled and continued without a message
C29_Witness ==
    /\ fnOut.done /\ fnArgs.surface = "hook"
    /\ ~NoSelection /\ fnArgs.selection["checks"] = JArr(<<>>)
    /\ fnOut.cfg = CheckConfig(FALSE, FALSE, FALSE, FALSE)
    /\ fnOut.action = "continue" /\ fnOut.user_message = ""

\* a tool call with an empty checks list ran with the manifest's
\* configuration, the linter disabled there, and reported an issue
C29_ToolWitness ==
    /\ fnOut.done /\ fnArgs.surface = "tool"
    /\ ~NoSelection /\ fnArgs.selection["checks"] = JArr(<<>>)
    /\ fnOut.cfg = CheckConfig(FALSE, TRUE, TRUE, TRUE) /\ fnOut.reported = 1

----------------------------------------------------------------------------
(* SpecContent: check_content with the external tools disabled *)

InitContent ==
    /\ pR = EmptyResult /\ pOut = NotYet
    /\ mA = EmptyResult /\ mB = EmptyResult /\ mC = EmptyResult /\ mOut = NotYet
    /\ config \in {CheckConfig(FALSE, FALSE, FALSE, TRUE), CheckConfig(FALSE, FALSE, FALSE, FALSE)}
    /\ root = "none"
    /\ entry = "check_content"
    /\ paths = <<>> /\ fix = FALSE
    /\ content \in SeqsUpTo({LTodo, LAny, LConsole, LPlain, LWarn}, MaxStubLines)
    /\ filename \in {"example.ts", "foo.test.ts", "types.d.ts"}
    /\ pc = "call"
    /\ results = EmptyResult
    /\ ret = NotYet
    /\ exc = ""
    /\ log = <<>>
    /\ temp = NoTemp
    /\ FnIdle

SpecContent == InitContent /\ [][Next]_vars

\* C30: check_content evaluates the stub suppression rules on the path of its
\* temporary file, not on the caller's filename: under a temporary path that
\* holds "test" or "spec" no stub issue is reported, under any other every
\* matched (line, rule) of the content is, carrying the caller's filename,
\* also when that filename is foo.test.ts or types.d.ts.
C30_SuppressionByTempPath ==
    (ret.done /\ entry = "check_content" /\ config.enable_stub_check) =>
        LET hits == IF temp.path = "/tmp/tmptest_0ab.ts" THEN <<>> ELSE Hits(content, 1, 1) IN
        /\ Len(ret.result.issues) = Len(hits)
        /\ \A k \in 1..Len(hits) :
             ret.result.issues[k] =
                Issue(filename, hits[k][1], 1, "STUB",
                      StubDescriptions[hits[k][2]] \o ": " \o content[hits[k][1]].text,
                      WARNING, "stub-check")

\* content with a TODO line, given as foo.test.ts, had the TODO reported under
\* that name
C30_Witness ==
    /\ ret.done /\ entry = "check_content" /\ filename = "foo.test.ts"
    /\ content = <<LTodo>> /\ temp.path = "/tmp/tmpk3x9q2ab.ts"
    /\ ret.result.issues = <<Issue("foo.test.ts", 1, 1, "STUB", "TODO comment: // TODO: fix this",
                                   WARNING, "stub-check")>>

\* the same content under a temporary name that holds "test" had nothing
\* reported
C30_TempWitness ==
    /\ ret.done /\ entry = "check_content" /\ config.enable_stub_check
    /\ content = <<LTodo>> /\ temp.path = "/tmp/tmptest_0ab.ts"
    /\ ret.result.issues = <<>>

============================================================================
